---- MODULE Spec2Model ----
(***************************************************************************)
(* Campus gate access control: the REST handlers of the server            *)
(* (verify-access, grant-access, deny-access, the student routes), the    *)
(* storage they call, and the WebSocket broadcaster.                      *)
(*                                                                         *)
(* Every `await` of a handler is a suspension point: the storage call it  *)
(* waits for is one atomic step, and the synchronous code that follows    *)
(* the await runs in the same step as the next storage call (or, for the  *)
(* last segment, as the step that broadcasts and responds).               *)
(***************************************************************************)
EXTENDS Integers, Sequences, FiniteSets, TLC

\* ------------------------------------------------------------------ bounds
MaxOps == 4        \* requests and connections per run, all kinds together
MaxCalls == 2      \* of them gate requests (verify / grant / deny)
MaxAdmin == 2      \* of them student-route requests (POST / PUT / DELETE)
MaxClients == 2    \* of them WebSocket connections
MaxLimit == 3      \* the largest ?limit= of a GET /api/access-logs
MaxPosts == 3      \* verify requests a camera station sends in a run
MaxSockets == 4    \* WebSocket objects a useWebSocket hook creates in a run

\* ------------------------------------------------------------------ inputs
Tokens == {"S100", "S200"}
Plates == {"ABC123", "XYZ999"}
Gates == {"Gate1"}
Missing == ""          \* a field that is absent or empty (falsy in the handlers)
NoReason == ""         \* `reason` undefined
NoId == 0              \* null reference
NoClient == 0
\* Request bodies: <<studentId, plateNumber, gateLocation>>, and the reason
\* last for deny-access.
VerifyRequests == Tokens \X Plates \X Gates
IncompleteRequests ==
  { <<Missing, "ABC123", "Gate1">>, <<"S100", Missing, "Gate1">>,
    <<"S100", "ABC123", Missing>>, <<Missing, Missing, Missing>> }
GrantRequests == { <<"S100", "ABC123", "Gate1">>, <<Missing, "XYZ999", "Gate1">> }
DenyRequests ==
  { <<Missing, "ABC123", "Gate1", "Suspicious">>,
    <<"S100", "ABC123", "Gate1", Missing>>,
    <<"S200", Missing, "Gate1", Missing>> }

\* Reference data registered before the run starts: each pair is one
\* successful POST /api/students (an identity and the vehicle it owns).
Registered == << <<"S100", "ABC123">>, <<"S200", "XYZ999">> >>

VARIABLES
  students,          \* MemoryStorage.students: internal id -> record
  vehicles,          \* MemoryStorage.vehicles: internal id -> record
  accessLogs,        \* MemoryStorage.accessLogs, in insertion order
  alerts,            \* MemoryStorage.alerts, in insertion order
  nextStudent,       \* internal ids handed out so far (randomUUID is fresh)
  nextVehicle,
  connectedClients,  \* the Set of sockets, in insertion order
  readyState,        \* socket -> "OPEN" | "CLOSING" | "CLOSED"
  inbox,             \* socket -> the messages the server has sent to it
  calls,             \* the gate requests: inputs, locals, position, response
  adm,               \* the student-route requests in flight
  nAdmin,            \* student- and alert-route requests received so far
  lastRead,          \* the last PUT /api/alerts/:id/read: its id and response
  received,          \* the inbound WebSocket messages handled so far
  hadConsistentView, \* history: verify call -> it has seen a matching active pair
  station,           \* CameraStation: its useState values and its requests in flight
  clientSockets,     \* useWebSocket: socket -> readyState and close code, until closed
  socketsCreated,    \* useWebSocket: the WebSocket objects created so far
  wsRef,             \* wsRef.current
  reconnectTimeoutRef, \* reconnectTimeoutRef.current
  reconnectAttempts, \* reconnectAttempts.current
  pendingTimeouts,   \* the reconnect timeouts set and neither fired nor cleared
  pingIntervals,     \* the ping intervals set and not cleared
  lastPing,          \* the interval whose tick sent the last ping
  mounted,           \* the component that uses the hook is mounted
  automaticAttempts  \* history: reconnect timeouts fired since the last open

vars == <<students, vehicles, accessLogs, alerts, nextStudent, nextVehicle,
          connectedClients, readyState, inbox, calls, adm, nAdmin, lastRead,
          received, hadConsistentView, station, clientSockets, socketsCreated,
          wsRef, reconnectTimeoutRef, reconnectAttempts, pendingTimeouts,
          pingIntervals, lastPing, mounted, automaticAttempts>>

serverVars == <<students, vehicles, accessLogs, alerts, nextStudent, nextVehicle,
                connectedClients, readyState, inbox, calls, adm, nAdmin, lastRead,
                received, hadConsistentView>>
hookVars == <<clientSockets, socketsCreated, wsRef, reconnectTimeoutRef,
              reconnectAttempts, pendingTimeouts, pingIntervals, lastPing, mounted,
              automaticAttempts>>
clientVars == <<station, hookVars>>

\* The work of a run so far: a gate request (a handler of up to five steps)
\* weighs as much as two student-route requests or connections.
Ops == 2 * Len(calls) + nAdmin + Len(readyState) + Len(received)
CanCall == Ops + 2 <= MaxOps /\ Len(calls) < MaxCalls
CanAdmin == Ops < MaxOps /\ nAdmin < MaxAdmin
CanConnect == Ops < MaxOps /\ Len(readyState) < MaxClients
CanReceive == Ops < MaxOps

storeVars == <<students, vehicles, nextStudent, nextVehicle>>
wsVars == <<connectedClients, readyState>>

NoStudent == [id |-> NoId, studentId |-> Missing, isActive |-> FALSE, vehicle |-> NoId]
NoVehicle == [id |-> NoId, plateNumber |-> Missing, studentId |-> NoId, isActive |-> FALSE]

MinOf(S) == CHOOSE x \in S : \A y \in S : x <= y

\* ----------------------------------------------------------------- storage

\* Array.from(vehicles.values()).find(v => v.plateNumber === plateNumber)
getVehicleByPlate(plateNumber) ==
  LET hit == {i \in DOMAIN vehicles : vehicles[i].plateNumber = plateNumber}
  IN  IF hit = {} THEN NoVehicle ELSE vehicles[MinOf(hit)]

\* the first student with that external id, joined with the first vehicle it owns
getStudentByStudentId(studentId) ==
  LET hit == {i \in DOMAIN students : students[i].studentId = studentId}
  IN  IF hit = {} THEN NoStudent
      ELSE LET s == students[MinOf(hit)]
               own == {j \in DOMAIN vehicles : vehicles[j].studentId = s.id}
           IN  [id |-> s.id, studentId |-> s.studentId, isActive |-> s.isActive,
                vehicle |-> IF own = {} THEN NoId ELSE MinOf(own)]

\* (mutant) the cascade without its last check: the active flags are ignored
VerifyResult_IgnoresActive(student, vehicle) ==
  IF student.id = NoId
  THEN [student |-> NoStudent, vehicle |-> NoVehicle, isValid |-> FALSE,
        reason |-> "Student ID not found"]
  ELSE IF vehicle.id = NoId
  THEN [student |-> student, vehicle |-> NoVehicle, isValid |-> FALSE,
        reason |-> "Vehicle not registered"]
  ELSE IF vehicle.studentId # student.id
  THEN [student |-> student, vehicle |-> vehicle, isValid |-> FALSE,
        reason |-> "Vehicle does not belong to this student"]
  ELSE [student |-> student, vehicle |-> vehicle, isValid |-> TRUE,
        reason |-> NoReason]

\* (mutant) the vehicle is looked at before the identity
VerifyResult_VehicleFirst(student, vehicle) ==
  IF vehicle.id = NoId
  THEN [student |-> student, vehicle |-> NoVehicle, isValid |-> FALSE,
        reason |-> "Vehicle not registered"]
  ELSE IF student.id = NoId
  THEN [student |-> NoStudent, vehicle |-> NoVehicle, isValid |-> FALSE,
        reason |-> "Student ID not found"]
  ELSE IF vehicle.studentId # student.id
  THEN [student |-> student, vehicle |-> vehicle, isValid |-> FALSE,
        reason |-> "Vehicle does not belong to this student"]
  ELSE IF ~student.isActive \/ ~vehicle.isActive
  THEN [student |-> student, vehicle |-> vehicle, isValid |-> FALSE,
        reason |-> "Student or vehicle is inactive"]
  ELSE [student |-> student, vehicle |-> vehicle, isValid |-> TRUE,
        reason |-> NoReason]

\* (mutant) the active flags are looked at before the owner
VerifyResult_InactiveFirst(student, vehicle) ==
  IF student.id = NoId
  THEN [student |-> NoStudent, vehicle |-> NoVehicle, isValid |-> FALSE,
        reason |-> "Student ID not found"]
  ELSE IF vehicle.id = NoId
  THEN [student |-> student, vehicle |-> NoVehicle, isValid |-> FALSE,
        reason |-> "Vehicle not registered"]
  ELSE IF ~student.isActive \/ ~vehicle.isActive
  THEN [student |-> student, vehicle |-> vehicle, isValid |-> FALSE,
        reason |-> "Student or vehicle is inactive"]
  ELSE IF vehicle.studentId # student.id
  THEN [student |-> student, vehicle |-> vehicle, isValid |-> FALSE,
        reason |-> "Vehicle does not belong to this student"]
  ELSE [student |-> student, vehicle |-> vehicle, isValid |-> TRUE,
        reason |-> NoReason]

\* (mutant) the vehicle found is kept when the identity is unknown
VerifyResult_KeepsVehicle(student, vehicle) ==
  IF student.id = NoId
  THEN [student |-> NoStudent, vehicle |-> vehicle, isValid |-> FALSE,
        reason |-> "Student ID not found"]
  ELSE IF vehicle.id = NoId
  THEN [student |-> student, vehicle |-> NoVehicle, isValid |-> FALSE,
        reason |-> "Vehicle not registered"]
  ELSE IF vehicle.studentId # student.id
  THEN [student |-> student, vehicle |-> vehicle, isValid |-> FALSE,
        reason |-> "Vehicle does not belong to this student"]
  ELSE IF ~student.isActive \/ ~vehicle.isActive
  THEN [student |-> student, vehicle |-> vehicle, isValid |-> FALSE,
        reason |-> "Student or vehicle is inactive"]
  ELSE [student |-> student, vehicle |-> vehicle, isValid |-> TRUE,
        reason |-> NoReason]

\* The cascade of verifyStudentAndVehicle once both lookups have returned.
VerifyResult(student, vehicle) ==
  IF student.id = NoId
  THEN [student |-> NoStudent, vehicle |-> NoVehicle, isValid |-> FALSE,
        reason |-> "Student ID not found"]
  ELSE IF vehicle.id = NoId
  THEN [student |-> student, vehicle |-> NoVehicle, isValid |-> FALSE,
        reason |-> "Vehicle not registered"]
  ELSE IF vehicle.studentId # student.id
  THEN [student |-> student, vehicle |-> vehicle, isValid |-> FALSE,
        reason |-> "Vehicle does not belong to this student"]
  ELSE IF ~student.isActive \/ ~vehicle.isActive
  THEN [student |-> student, vehicle |-> vehicle, isValid |-> FALSE,
        reason |-> "Student or vehicle is inactive"]
  ELSE [student |-> student, vehicle |-> vehicle, isValid |-> TRUE,
        reason |-> NoReason]

\* verifyStudentAndVehicle on one snapshot of the store
verifyStudentAndVehicle(studentId, plateNumber) ==
  VerifyResult(getStudentByStudentId(studentId), getVehicleByPlate(plateNumber))

\* DrizzleStorage.getVehicleByPlate: select ... where plate_number = ? limit 1;
\* without an ORDER BY the row kept by the limit is any of the matching rows
Drizzle_getVehicleByPlate(plateNumber) ==
  LET hit == {i \in DOMAIN vehicles : vehicles[i].plateNumber = plateNumber}
  IN  IF hit = {} THEN {NoVehicle} ELSE {vehicles[i] : i \in hit}

\* DrizzleStorage.getStudentByStudentId: students left-joined with vehicles,
\* where student_id = ? limit 1; any of the joined rows
Drizzle_getStudentByStudentId(studentId) ==
  LET hit == {i \in DOMAIN students : students[i].studentId = studentId}
      Own(i) == {j \in DOMAIN vehicles : vehicles[j].studentId = students[i].id}
      Rows(i) == IF Own(i) = {} THEN {<<i, NoId>>} ELSE {<<i, j>> : j \in Own(i)}
  IN  IF hit = {} THEN {NoStudent}
      ELSE {[id |-> students[row[1]].id, studentId |-> students[row[1]].studentId,
             isActive |-> students[row[1]].isActive, vehicle |-> row[2]] :
            row \in UNION {Rows(i) : i \in hit}}

\* (mutant) the database implementation does not compare the owner
Drizzle_VerifyResult_NoOwnerCheck(student, vehicle) ==
  IF student.id = NoId
  THEN [student |-> NoStudent, vehicle |-> NoVehicle, isValid |-> FALSE,
        reason |-> "Student ID not found"]
  ELSE IF vehicle.id = NoId
  THEN [student |-> student, vehicle |-> NoVehicle, isValid |-> FALSE,
        reason |-> "Vehicle not registered"]
  ELSE IF ~student.isActive \/ ~vehicle.isActive
  THEN [student |-> student, vehicle |-> vehicle, isValid |-> FALSE,
        reason |-> "Student or vehicle is inactive"]
  ELSE [student |-> student, vehicle |-> vehicle, isValid |-> TRUE,
        reason |-> NoReason]

\* The cascade of DrizzleStorage.verifyStudentAndVehicle.
Drizzle_VerifyResult(student, vehicle) ==
  IF student.id = NoId
  THEN [student |-> NoStudent, vehicle |-> NoVehicle, isValid |-> FALSE,
        reason |-> "Student ID not found"]
  ELSE IF vehicle.id = NoId
  THEN [student |-> student, vehicle |-> NoVehicle, isValid |-> FALSE,
        reason |-> "Vehicle not registered"]
  ELSE IF vehicle.studentId # student.id
  THEN [student |-> student, vehicle |-> vehicle, isValid |-> FALSE,
        reason |-> "Vehicle does not belong to this student"]
  ELSE IF ~student.isActive \/ ~vehicle.isActive
  THEN [student |-> student, vehicle |-> vehicle, isValid |-> FALSE,
        reason |-> "Student or vehicle is inactive"]
  ELSE [student |-> student, vehicle |-> vehicle, isValid |-> TRUE,
        reason |-> NoReason]

\* DrizzleStorage.verifyStudentAndVehicle on one snapshot of the tables: the
\* results it can return
Drizzle_verifyStudentAndVehicle(studentId, plateNumber) ==
  {Drizzle_VerifyResult(student, vehicle) :
     student \in Drizzle_getStudentByStudentId(studentId),
     vehicle \in Drizzle_getVehicleByPlate(plateNumber)}

\* (mutant) an entry equal to an earlier one is not stored again
createAccessLog_Deduplicated(logInput, now) ==
  IF \E i \in 1..Len(accessLogs) :
       accessLogs[i] = [id |-> i, timestamp |-> accessLogs[i].timestamp] @@ logInput
  THEN accessLogs
  ELSE Append(accessLogs, [id |-> Len(accessLogs) + 1, timestamp |-> now] @@ logInput)

\* new Date() at a write: the clock does not run backwards, and two writes
\* can fall into the same millisecond (the first entry is written at 1)
Now ==
  IF accessLogs = <<>> THEN {1}
  ELSE {accessLogs[Len(accessLogs)].timestamp, accessLogs[Len(accessLogs)].timestamp + 1}

\* createAccessLog: a fresh id, the time of the write, the input's fields,
\* appended to the map
createAccessLog(logInput, now) ==
  Append(accessLogs, [id |-> Len(accessLogs) + 1, timestamp |-> now] @@ logInput)

\* (mutant) the entries are returned in the order of the map
SortByTimestamp_Unsorted(logs) == logs

\* the comparator of the sort: b.timestamp - a.timestamp
NewerFirst(a, b) == b.timestamp - a.timestamp

\* one entry put into a sorted array, behind every entry it does not sort
\* before (Array.prototype.sort is stable)
RECURSIVE InsertSorted(_, _)
InsertSorted(sorted, entry) ==
  IF sorted = <<>> THEN <<entry>>
  ELSE IF NewerFirst(Head(sorted), entry) > 0
       THEN <<entry>> \o sorted
       ELSE <<Head(sorted)>> \o InsertSorted(Tail(sorted), entry)

\* Array.from(accessLogs.values()).sort((a, b) => b.timestamp - a.timestamp)
RECURSIVE SortByTimestamp(_)
SortByTimestamp(logs) ==
  IF logs = <<>> THEN <<>>
  ELSE InsertSorted(SortByTimestamp(SubSeq(logs, 1, Len(logs) - 1)), logs[Len(logs)])

\* array.slice(0, end): a negative end counts from the end of the array
Slice(array, end) ==
  LET stop == IF end < 0 THEN Len(array) + end ELSE end
  IN  SubSeq(array, 1, IF stop > Len(array) THEN Len(array) ELSE stop)

\* getRecentAccessLogs(limit): sorted, sliced, each entry joined with the
\* student and the vehicle it refers to if they are in the store
getRecentAccessLogs(limit) ==
  LET logs == Slice(SortByTimestamp(accessLogs), limit)
  IN  [i \in 1..Len(logs) |->
         [log |-> logs[i],
          student |-> IF logs[i].studentId \in DOMAIN students
                      THEN logs[i].studentId ELSE NoId,
          vehicle |-> IF logs[i].vehicleId \in DOMAIN vehicles
                      THEN logs[i].vehicleId ELSE NoId]]

\* createAlert: a fresh id, unread, appended to the map
createAlert(alertInput) ==
  Append(alerts, [id |-> Len(alerts) + 1, isRead |-> FALSE] @@ alertInput)

\* ------------------------------------------------------------- broadcaster

RECURSIVE Deliver(_, _, _, _)
Deliver(order, message, box, thrower) ==
  IF order = <<>> THEN [inbox |-> box, threw |-> NoClient]
  ELSE LET client == Head(order) IN
       IF readyState[client] = "OPEN"
       THEN IF client = thrower
            THEN [inbox |-> box, threw |-> client]
            ELSE Deliver(Tail(order), message,
                         [box EXCEPT ![client] = Append(@, message)], thrower)
       ELSE Deliver(Tail(order), message, box, thrower)

\* (mutant) every socket of the set is sent to, whatever its readyState
broadcast_ToEverySocket(message, box, thrower) ==
  [inbox |-> [k \in DOMAIN box |->
                IF \E i \in 1..Len(connectedClients) : connectedClients[i] = k
                THEN Append(box[k], message) ELSE box[k]],
   threw |-> NoClient]

\* connectedClients.forEach(client => { if (OPEN) client.send(messageStr) }):
\* `thrower` is the socket whose send throws (NoClient: no send throws); the
\* exception leaves forEach and broadcast at once.
broadcast(message, box, thrower) == Deliver(connectedClients, message, box, thrower)

OpenClients == {k \in DOMAIN readyState : readyState[k] = "OPEN"}
InSet(k) == \E i \in 1..Len(connectedClients) : connectedClients[i] = k
Throwers == {NoClient} \cup {k \in OpenClients : InSet(k)}

\* (mutant) the record is sent without the identity and vehicle joined to it
Msg_NotJoined(type, id, student, vehicle) ==
  [type |-> type, id |-> id, student |-> NoId, vehicle |-> NoId]

Msg(type, id, student, vehicle) ==
  [type |-> type, id |-> id, student |-> student, vehicle |-> vehicle]

\* -------------------------------------------------------------------- Init

SeedStudents(n) ==
  [i \in 1..n |-> [id |-> i, studentId |-> Registered[i][1], isActive |-> TRUE]]
SeedVehicles(n) ==
  [i \in 1..n |-> [id |-> i, plateNumber |-> Registered[i][2], studentId |-> i,
                   isActive |-> TRUE]]

Init ==
  /\ \E n \in 0..Len(Registered) :
       /\ students = SeedStudents(n)
       /\ vehicles = SeedVehicles(n)
       /\ nextStudent = n
       /\ nextVehicle = n
  /\ accessLogs = <<>>
  /\ alerts = <<>>
  /\ connectedClients = <<>>
  /\ readyState = <<>>
  /\ inbox = <<>>
  /\ calls = <<>>
  /\ adm = <<>>
  /\ nAdmin = 0
  /\ lastRead = [id |-> NoId, status |-> 0]
  /\ received = <<>>
  /\ hadConsistentView = <<>>
  /\ station = [detectedPlate |-> Missing, scannedStudentId |-> Missing,
                isVerifying |-> FALSE, inFlight |-> <<>>, clearTimers |-> 0,
                posted |-> 0]
  \* the hook after its mount effect has run connect()
  /\ clientSockets = (1 :> [readyState |-> "CONNECTING", code |-> NoId])
  /\ socketsCreated = 1
  /\ wsRef = 1
  /\ reconnectTimeoutRef = NoId
  /\ reconnectAttempts = 0
  /\ pendingTimeouts = {}
  /\ pingIntervals = {}
  /\ lastPing = NoId
  /\ mounted = TRUE
  /\ automaticAttempts = 0

\* ------------------------------------------------------------ gate requests

NewCall(kind, studentId, plateNumber, gateLocation, reason) ==
  [kind |-> kind, studentId |-> studentId, plateNumber |-> plateNumber,
   gateLocation |-> gateLocation, reason |-> reason,
   pc |-> "vehicle", student |-> NoStudent, vehicle |-> NoVehicle,
   isValid |-> FALSE, vreason |-> NoReason,
   logId |-> NoId, alertId |-> NoId, status |-> 0,
   error |-> "none", threwAt |-> NoClient]

SetCall(c, r) == calls' = [calls EXCEPT ![c] = r]

\* some active identity with that external id owns some active vehicle with
\* that plate, in the tables given
ConsistentViewOf(studentTable, vehicleTable, studentId, plateNumber) ==
  \E i \in DOMAIN studentTable, j \in DOMAIN vehicleTable :
    /\ studentTable[i].studentId = studentId /\ studentTable[i].isActive
    /\ vehicleTable[j].plateNumber = plateNumber /\ vehicleTable[j].isActive
    /\ vehicleTable[j].studentId = studentTable[i].id

\* history of the verify calls (not state of the program): whether the store
\* has, at some instant since the call arrived and before it answered, held
\* such a pair for the call's token and plate.  Every step records it.
Observed ==
  hadConsistentView' =
    [c \in 1..Len(calls') |->
       \/ c <= Len(hadConsistentView) /\ hadConsistentView[c]
       \/ /\ calls'[c].kind = "verify" /\ calls'[c].pc # "done"
          /\ ConsistentViewOf(students', vehicles',
                              calls'[c].studentId, calls'[c].plateNumber)]

\* (mutant) the gate location is not looked at
MissingRequiredFields_NoGate(body) ==
  body[1] = Missing \/ body[2] = Missing

\* if (!studentId || !plateNumber || !gateLocation)
MissingRequiredFields(body) ==
  body[1] = Missing \/ body[2] = Missing \/ body[3] = Missing

\* POST /api/verify-access with a missing field: 400 before anything else
VerifyAccess_Invalid ==
  /\ CanCall
  /\ \E body \in IncompleteRequests \cup VerifyRequests :
       /\ MissingRequiredFields(body)
       /\ calls' = Append(calls,
            [NewCall("verify", body[1], body[2], body[3], Missing)
               EXCEPT !.pc = "done", !.status = 400])
  /\ UNCHANGED <<storeVars, accessLogs, alerts, wsVars, inbox, adm, nAdmin, lastRead, received, clientVars>>
  /\ Observed

\* POST /api/verify-access: the fields are present; getStudentByStudentId
VerifyAccess_Start ==
  /\ CanCall
  /\ \E body \in IncompleteRequests \cup VerifyRequests :
       /\ ~MissingRequiredFields(body)
       /\ calls' = Append(calls,
            [NewCall("verify", body[1], body[2], body[3], Missing)
               EXCEPT !.student = getStudentByStudentId(body[1])])
  /\ UNCHANGED <<storeVars, accessLogs, alerts, wsVars, inbox, adm, nAdmin, lastRead, received, clientVars>>
  /\ Observed

\* getVehicleByPlate, then the cascade
VerifyAccess_Vehicle(c) ==
  /\ calls[c].kind = "verify" /\ calls[c].pc = "vehicle"
  /\ LET verification == VerifyResult(calls[c].student, getVehicleByPlate(calls[c].plateNumber))
     IN SetCall(c, [calls[c] EXCEPT !.pc = "log",
                      !.student = verification.student,
                      !.vehicle = verification.vehicle,
                      !.isValid = verification.isValid,
                      !.vreason = verification.reason])
  /\ UNCHANGED <<storeVars, accessLogs, alerts, wsVars, inbox, adm, nAdmin, lastRead, received, clientVars>>
  /\ Observed

\* (mutant) the status no longer follows the verdict
VerifyLogInput_AlwaysGranted(call) ==
  [studentId |-> call.student.id, vehicleId |-> call.vehicle.id,
   plateNumber |-> call.plateNumber, gateLocation |-> call.gateLocation,
   accessStatus |-> "granted",
   reason |-> call.vreason, metadata |-> "confidence:100"]

\* (mutant) the plate is taken from the vehicle record, not from the request
VerifyLogInput_PlateOfRecord(call) ==
  [studentId |-> call.student.id, vehicleId |-> call.vehicle.id,
   plateNumber |-> call.vehicle.plateNumber, gateLocation |-> call.gateLocation,
   accessStatus |-> IF call.isValid THEN "granted" ELSE "denied",
   reason |-> call.vreason, metadata |-> "confidence:100"]

VerifyLogInput(call) ==
  [studentId |-> call.student.id, vehicleId |-> call.vehicle.id,
   plateNumber |-> call.plateNumber, gateLocation |-> call.gateLocation,
   accessStatus |-> IF call.isValid THEN "granted" ELSE "denied",
   reason |-> call.vreason, metadata |-> "confidence:100"]

\* (mutant) a failed log write is noted and the handler goes on
VerifyAccess_Log_FailureGoesOn(c) ==
  /\ calls[c].kind = "verify" /\ calls[c].pc = "log"
  /\ \/ /\ \E now \in Now : accessLogs' = createAccessLog(VerifyLogInput(calls[c]), now)
        /\ SetCall(c, [calls[c] EXCEPT !.logId = Len(accessLogs) + 1,
                         !.pc = IF calls[c].isValid THEN "finish" ELSE "alert"])
     \/ /\ SetCall(c, [calls[c] EXCEPT !.error = "log",
                         !.pc = IF calls[c].isValid THEN "finish" ELSE "alert"])
        /\ UNCHANGED accessLogs
  /\ UNCHANGED <<storeVars, alerts, wsVars, inbox, adm, nAdmin, lastRead, received, clientVars>>
  /\ Observed

\* (mutant) a denial goes straight to the broadcasts: no alert is written
VerifyAccess_Log_NoAlert(c) ==
  /\ calls[c].kind = "verify" /\ calls[c].pc = "log"
  /\ \E now \in Now : accessLogs' = createAccessLog(VerifyLogInput(calls[c]), now)
  /\ SetCall(c, [calls[c] EXCEPT !.logId = Len(accessLogs) + 1, !.pc = "finish"])
  /\ UNCHANGED <<storeVars, alerts, wsVars, inbox, adm, nAdmin, lastRead, received, clientVars>>
  /\ Observed

\* storage.createAccessLog, then on to the alert if the verdict is a denial;
\* a failed write goes to the catch: 500
VerifyAccess_Log(c) ==
  /\ calls[c].kind = "verify" /\ calls[c].pc = "log"
  /\ \/ /\ \E now \in Now : accessLogs' = createAccessLog(VerifyLogInput(calls[c]), now)
        /\ SetCall(c, [calls[c] EXCEPT !.logId = Len(accessLogs) + 1,
                         !.pc = IF calls[c].isValid THEN "finish" ELSE "alert"])
     \/ /\ SetCall(c, [calls[c] EXCEPT !.pc = "done", !.status = 500, !.error = "log"])
        /\ UNCHANGED accessLogs
  /\ UNCHANGED <<storeVars, alerts, wsVars, inbox, adm, nAdmin, lastRead, received, clientVars>>
  /\ Observed

VerifyAlertInput(call) ==
  [type |-> "unauthorized_access", severity |-> "critical",
   title |-> "Unauthorized Access Attempt",
   description |-> <<call.vreason, " - Vehicle: ", call.plateNumber>>,
   gateLocation |-> call.gateLocation,
   metadata |-> [studentId |-> call.studentId, plateNumber |-> call.plateNumber,
                 manual |-> FALSE]]

\* (mutant) a failed alert write takes the call's log entry back
VerifyAccess_Alert_RollsBack(c) ==
  /\ calls[c].kind = "verify" /\ calls[c].pc = "alert"
  /\ \/ /\ alerts' = createAlert(VerifyAlertInput(calls[c]))
        /\ SetCall(c, [calls[c] EXCEPT !.alertId = Len(alerts) + 1, !.pc = "finish"])
        /\ UNCHANGED accessLogs
     \/ /\ SetCall(c, [calls[c] EXCEPT !.pc = "done", !.status = 500, !.error = "alert"])
        /\ accessLogs' = SubSeq(accessLogs, 1, calls[c].logId - 1)
        /\ UNCHANGED alerts
  /\ UNCHANGED <<storeVars, wsVars, inbox, adm, nAdmin, lastRead, received, clientVars>>
  /\ Observed

\* (mutant) the alert is announced without having been written
VerifyAccess_Alert_NotAwaited(c) ==
  /\ calls[c].kind = "verify" /\ calls[c].pc = "alert"
  /\ SetCall(c, [calls[c] EXCEPT !.alertId = Len(alerts) + 1, !.pc = "finish"])
  /\ UNCHANGED <<storeVars, accessLogs, alerts, wsVars, inbox, adm, nAdmin, lastRead, received, clientVars>>
  /\ Observed

\* storage.createAlert of a denied verification
VerifyAccess_Alert(c) ==
  /\ calls[c].kind = "verify" /\ calls[c].pc = "alert"
  /\ \/ /\ alerts' = createAlert(VerifyAlertInput(calls[c]))
        /\ SetCall(c, [calls[c] EXCEPT !.alertId = Len(alerts) + 1, !.pc = "finish"])
     \/ /\ SetCall(c, [calls[c] EXCEPT !.pc = "done", !.status = 500, !.error = "alert"])
        /\ UNCHANGED alerts
  /\ UNCHANGED <<storeVars, accessLogs, wsVars, inbox, adm, nAdmin, lastRead, received, clientVars>>
  /\ Observed

\* (mutant) the access log is broadcast before the alert
VerifyAccess_Finish_LogFirst(c) ==
  /\ calls[c].kind = "verify" /\ calls[c].pc = "finish"
  /\ \E t1 \in Throwers, t2 \in Throwers :
       LET call == calls[c]
           b1 == broadcast(Msg("access_log", call.logId, call.student.id,
                               call.vehicle.id), inbox, t1)
           b2 == IF b1.threw # NoClient \/ call.isValid THEN b1
                 ELSE broadcast(Msg("new_alert", call.alertId, NoId, NoId),
                                b1.inbox, t2)
       IN /\ (b1.threw # NoClient \/ call.isValid) => t2 = NoClient
          /\ inbox' = b2.inbox
          /\ SetCall(c, [call EXCEPT !.pc = "done", !.threwAt = b2.threw,
                           !.error = IF b2.threw = NoClient THEN "none" ELSE "send",
                           !.status = IF b2.threw = NoClient THEN 200 ELSE 500])
  /\ UNCHANGED <<storeVars, accessLogs, alerts, wsVars, adm, nAdmin, lastRead, received, clientVars>>
  /\ Observed

\* broadcast new_alert (if denied), broadcast access_log, res.json
VerifyAccess_Finish(c) ==
  /\ calls[c].kind = "verify" /\ calls[c].pc = "finish"
  /\ \E t1 \in Throwers, t2 \in Throwers :
       LET call == calls[c]
           b1 == IF call.isValid
                 THEN [inbox |-> inbox, threw |-> NoClient]
                 ELSE broadcast(Msg("new_alert", call.alertId, NoId, NoId), inbox, t1)
           b2 == IF b1.threw # NoClient THEN b1
                 ELSE broadcast(Msg("access_log", call.logId, call.student.id,
                                    call.vehicle.id), b1.inbox, t2)
       IN /\ call.isValid => t1 = NoClient
          /\ b1.threw # NoClient => t2 = NoClient
          /\ inbox' = b2.inbox
          /\ SetCall(c, [call EXCEPT !.pc = "done", !.threwAt = b2.threw,
                           !.error = IF b2.threw = NoClient THEN "none" ELSE "send",
                           !.status = IF b2.threw = NoClient THEN 200 ELSE 500])
  /\ UNCHANGED <<storeVars, accessLogs, alerts, wsVars, adm, nAdmin, lastRead, received, clientVars>>
  /\ Observed

\* ------------------------------------------------- POST /api/grant-access

\* no field is required: getStudentByStudentId(studentId)
GrantAccess_Start ==
  /\ CanCall
  /\ \E body \in GrantRequests :
       calls' = Append(calls,
            [NewCall("grant", body[1], body[2], body[3], Missing)
               EXCEPT !.student = getStudentByStudentId(body[1])])
  /\ UNCHANGED <<storeVars, accessLogs, alerts, wsVars, inbox, adm, nAdmin, lastRead, received, clientVars>>
  /\ Observed

GrantAccess_Vehicle(c) ==
  /\ calls[c].kind = "grant" /\ calls[c].pc = "vehicle"
  /\ SetCall(c, [calls[c] EXCEPT !.pc = "log",
                   !.vehicle = getVehicleByPlate(calls[c].plateNumber)])
  /\ UNCHANGED <<storeVars, accessLogs, alerts, wsVars, inbox, adm, nAdmin, lastRead, received, clientVars>>
  /\ Observed

\* (mutant) the entry does not say that the grant was manual
GrantLogInput_NotManual(call) ==
  [studentId |-> call.student.id, vehicleId |-> call.vehicle.id,
   plateNumber |-> call.plateNumber, gateLocation |-> call.gateLocation,
   accessStatus |-> "granted", reason |-> "Manual approval",
   metadata |-> "confidence:100"]

GrantLogInput(call) ==
  [studentId |-> call.student.id, vehicleId |-> call.vehicle.id,
   plateNumber |-> call.plateNumber, gateLocation |-> call.gateLocation,
   accessStatus |-> "granted", reason |-> "Manual approval",
   metadata |-> "manual:true"]

GrantAccess_Log(c) ==
  /\ calls[c].kind = "grant" /\ calls[c].pc = "log"
  /\ \/ /\ \E now \in Now : accessLogs' = createAccessLog(GrantLogInput(calls[c]), now)
        /\ SetCall(c, [calls[c] EXCEPT !.logId = Len(accessLogs) + 1, !.pc = "finish"])
     \/ /\ SetCall(c, [calls[c] EXCEPT !.pc = "done", !.status = 500, !.error = "log"])
        /\ UNCHANGED accessLogs
  /\ UNCHANGED <<storeVars, alerts, wsVars, inbox, adm, nAdmin, lastRead, received, clientVars>>
  /\ Observed

\* broadcast access_granted, res.json
GrantAccess_Finish(c) ==
  /\ calls[c].kind = "grant" /\ calls[c].pc = "finish"
  /\ \E t1 \in Throwers :
       LET call == calls[c]
           b1 == broadcast(Msg("access_granted", call.logId, call.student.id,
                               call.vehicle.id), inbox, t1)
       IN /\ inbox' = b1.inbox
          /\ SetCall(c, [call EXCEPT !.pc = "done", !.threwAt = b1.threw,
                           !.error = IF b1.threw = NoClient THEN "none" ELSE "send",
                           !.status = IF b1.threw = NoClient THEN 200 ELSE 500])
  /\ UNCHANGED <<storeVars, accessLogs, alerts, wsVars, adm, nAdmin, lastRead, received, clientVars>>
  /\ Observed

\* -------------------------------------------------- POST /api/deny-access

\* student = studentId ? await getStudentByStudentId(studentId) : null
DenyAccess_Start ==
  /\ CanCall
  /\ \E body \in DenyRequests :
       calls' = Append(calls,
            [NewCall("deny", body[1], body[2], body[3], body[4])
               EXCEPT !.student = IF body[1] # Missing
                                  THEN getStudentByStudentId(body[1])
                                  ELSE NoStudent])
  /\ UNCHANGED <<storeVars, accessLogs, alerts, wsVars, inbox, adm, nAdmin, lastRead, received, clientVars>>
  /\ Observed

\* vehicle = plateNumber ? await getVehicleByPlate(plateNumber) : null
DenyAccess_Vehicle(c) ==
  /\ calls[c].kind = "deny" /\ calls[c].pc = "vehicle"
  /\ SetCall(c, [calls[c] EXCEPT !.pc = "log",
                   !.vehicle = IF calls[c].plateNumber # Missing
                               THEN getVehicleByPlate(calls[c].plateNumber)
                               ELSE NoVehicle])
  /\ UNCHANGED <<storeVars, accessLogs, alerts, wsVars, inbox, adm, nAdmin, lastRead, received, clientVars>>
  /\ Observed

OrElse(x, default) == IF x = Missing THEN default ELSE x

\* (mutant) the reason is stored as given, without default
DenyLogInput_NoDefaultReason(call) ==
  [studentId |-> call.student.id, vehicleId |-> call.vehicle.id,
   plateNumber |-> OrElse(call.plateNumber, "Unknown"),
   gateLocation |-> call.gateLocation,
   accessStatus |-> "denied", reason |-> call.reason,
   metadata |-> "manual:true"]

DenyLogInput(call) ==
  [studentId |-> call.student.id, vehicleId |-> call.vehicle.id,
   plateNumber |-> OrElse(call.plateNumber, "Unknown"),
   gateLocation |-> call.gateLocation,
   accessStatus |-> "denied", reason |-> OrElse(call.reason, "Manual denial"),
   metadata |-> "manual:true"]

DenyAccess_Log(c) ==
  /\ calls[c].kind = "deny" /\ calls[c].pc = "log"
  /\ \/ /\ \E now \in Now : accessLogs' = createAccessLog(DenyLogInput(calls[c]), now)
        /\ SetCall(c, [calls[c] EXCEPT !.logId = Len(accessLogs) + 1, !.pc = "alert"])
     \/ /\ SetCall(c, [calls[c] EXCEPT !.pc = "done", !.status = 500, !.error = "log"])
        /\ UNCHANGED accessLogs
  /\ UNCHANGED <<storeVars, alerts, wsVars, inbox, adm, nAdmin, lastRead, received, clientVars>>
  /\ Observed

DenyAlertInput(call) ==
  [type |-> "unauthorized_access", severity |-> "critical",
   title |-> "Access Manually Denied",
   description |-> <<OrElse(call.reason, "Manual denial"), " - Vehicle: ",
                     OrElse(call.plateNumber, "Unknown")>>,
   gateLocation |-> call.gateLocation,
   metadata |-> [studentId |-> call.studentId, plateNumber |-> call.plateNumber,
                 manual |-> TRUE]]

DenyAccess_Alert(c) ==
  /\ calls[c].kind = "deny" /\ calls[c].pc = "alert"
  /\ \/ /\ alerts' = createAlert(DenyAlertInput(calls[c]))
        /\ SetCall(c, [calls[c] EXCEPT !.alertId = Len(alerts) + 1, !.pc = "finish"])
     \/ /\ SetCall(c, [calls[c] EXCEPT !.pc = "done", !.status = 500, !.error = "alert"])
        /\ UNCHANGED alerts
  /\ UNCHANGED <<storeVars, accessLogs, wsVars, inbox, adm, nAdmin, lastRead, received, clientVars>>
  /\ Observed

\* broadcast access_denied, broadcast new_alert, res.json
DenyAccess_Finish(c) ==
  /\ calls[c].kind = "deny" /\ calls[c].pc = "finish"
  /\ \E t1 \in Throwers, t2 \in Throwers :
       LET call == calls[c]
           b1 == broadcast(Msg("access_denied", call.logId, call.student.id,
                               call.vehicle.id), inbox, t1)
           b2 == IF b1.threw # NoClient THEN b1
                 ELSE broadcast(Msg("new_alert", call.alertId, NoId, NoId),
                                b1.inbox, t2)
       IN /\ b1.threw # NoClient => t2 = NoClient
          /\ inbox' = b2.inbox
          /\ SetCall(c, [call EXCEPT !.pc = "done", !.threwAt = b2.threw,
                           !.error = IF b2.threw = NoClient THEN "none" ELSE "send",
                           !.status = IF b2.threw = NoClient THEN 200 ELSE 500])
  /\ UNCHANGED <<storeVars, accessLogs, alerts, wsVars, adm, nAdmin, lastRead, received, clientVars>>
  /\ Observed

\* ----------------------------------------------------------- student routes

RemoveAt(seq, i) == SubSeq(seq, 1, i - 1) \o SubSeq(seq, i + 1, Len(seq))

\* createStudent: throws when the external id is taken
createStudentThrows(studentId) ==
  \E i \in DOMAIN students : students[i].studentId = studentId

\* createVehicle: throws when the plate is taken
createVehicleThrows(plateNumber) ==
  \E i \in DOMAIN vehicles : vehicles[i].plateNumber = plateNumber

\* POST /api/students: storage.createStudent(studentData); a throw is a 400
RegisterStudent_Create ==
  /\ CanAdmin
  /\ nAdmin' = nAdmin + 1
  /\ \E studentId \in Tokens, plateNumber \in Plates, isActive \in BOOLEAN :
       IF createStudentThrows(studentId)
       THEN UNCHANGED <<storeVars, adm>>
       ELSE /\ students' = students @@
                 ((nextStudent + 1) :> [id |-> nextStudent + 1, studentId |-> studentId,
                                        isActive |-> TRUE])
            /\ nextStudent' = nextStudent + 1
            /\ adm' = Append(adm, [kind |-> "register", pc |-> "vehicle",
                                   id |-> nextStudent + 1, plateNumber |-> plateNumber,
                                   isActive |-> isActive, vehicle |-> NoId])
            /\ UNCHANGED <<vehicles, nextVehicle>>
  /\ UNCHANGED <<accessLogs, alerts, wsVars, inbox, calls, lastRead, received, clientVars>>
  /\ Observed

\* storage.createVehicle({...vehicleData, studentId: student.id}); a throw is a 400
RegisterStudent_Vehicle(a) ==
  /\ adm[a].kind = "register" /\ adm[a].pc = "vehicle"
  /\ IF createVehicleThrows(adm[a].plateNumber)
     THEN /\ adm' = RemoveAt(adm, a)
          /\ UNCHANGED <<vehicles, nextVehicle>>
     ELSE /\ vehicles' = vehicles @@
               ((nextVehicle + 1) :> [id |-> nextVehicle + 1,
                                      plateNumber |-> adm[a].plateNumber,
                                      studentId |-> adm[a].id,
                                      isActive |-> adm[a].isActive])
          /\ nextVehicle' = nextVehicle + 1
          /\ adm' = [adm EXCEPT ![a].pc = "finish", ![a].vehicle = nextVehicle + 1]
  /\ UNCHANGED <<students, nextStudent, accessLogs, alerts, wsVars, inbox, calls, nAdmin, lastRead, received, clientVars>>
  /\ Observed

\* broadcast student_added, res.json
RegisterStudent_Finish(a) ==
  /\ adm[a].kind = "register" /\ adm[a].pc = "finish"
  /\ \E t1 \in Throwers :
       inbox' = broadcast(Msg("student_added", adm[a].id, adm[a].id, adm[a].vehicle),
                         inbox, t1).inbox
  /\ adm' = RemoveAt(adm, a)
  /\ UNCHANGED <<storeVars, accessLogs, alerts, wsVars, calls, nAdmin, lastRead, received, clientVars>>
  /\ Observed

\* updateStudent(id, patch): { ...existing, ...patch }; an unknown id throws
updateStudent(id, field, value) ==
  IF id \in DOMAIN students
  THEN [students EXCEPT ![id] = [@ EXCEPT ![field] = value]]
  ELSE students

\* PUT /api/students/:id with { isActive } or { studentId }
UpdateStudent ==
  /\ CanAdmin
  /\ nAdmin' = nAdmin + 1
  /\ \E id \in 1..nextStudent :
       \/ \E isActive \in BOOLEAN : students' = updateStudent(id, "isActive", isActive)
       \/ \E studentId \in Tokens : students' = updateStudent(id, "studentId", studentId)
  /\ UNCHANGED <<vehicles, nextStudent, nextVehicle, accessLogs, alerts, wsVars,
                 inbox, calls, adm, lastRead, received, clientVars>>
  /\ Observed

\* (mutant) the cascade of the delete reaches the access logs
DeleteStudent_Delete_CascadesToLogs ==
  /\ CanAdmin
  /\ nAdmin' = nAdmin + 1
  /\ \E id \in 1..nextStudent :
       /\ students' = [i \in DOMAIN students \ {id} |-> students[i]]
       /\ vehicles' = [j \in {k \in DOMAIN vehicles : vehicles[k].studentId # id}
                         |-> vehicles[j]]
       /\ accessLogs' = SelectSeq(accessLogs, LAMBDA l : l.studentId # id)
       /\ adm' = Append(adm, [kind |-> "delete", pc |-> "finish", id |-> id,
                              plateNumber |-> Missing, isActive |-> TRUE,
                              vehicle |-> NoId])
  /\ UNCHANGED <<nextStudent, nextVehicle, alerts, wsVars, inbox, calls, lastRead, received, clientVars>>
  /\ Observed

\* DELETE /api/students/:id, deleteStudent(id): the student and, in cascade,
\* every vehicle that references it
DeleteStudent_Delete ==
  /\ CanAdmin
  /\ nAdmin' = nAdmin + 1
  /\ \E id \in 1..nextStudent :
       /\ students' = [i \in DOMAIN students \ {id} |-> students[i]]
       /\ vehicles' = [j \in {k \in DOMAIN vehicles : vehicles[k].studentId # id}
                         |-> vehicles[j]]
       /\ adm' = Append(adm, [kind |-> "delete", pc |-> "finish", id |-> id,
                              plateNumber |-> Missing, isActive |-> TRUE,
                              vehicle |-> NoId])
  /\ UNCHANGED <<nextStudent, nextVehicle, accessLogs, alerts, wsVars, inbox, calls, lastRead, received, clientVars>>
  /\ Observed

\* broadcast student_deleted, res.json
DeleteStudent_Finish(a) ==
  /\ adm[a].kind = "delete" /\ adm[a].pc = "finish"
  /\ \E t1 \in Throwers :
       inbox' = broadcast(Msg("student_deleted", adm[a].id, NoId, NoId), inbox, t1).inbox
  /\ adm' = RemoveAt(adm, a)
  /\ UNCHANGED <<storeVars, accessLogs, alerts, wsVars, calls, nAdmin, lastRead, received, clientVars>>
  /\ Observed

\* ----------------------------------------------------- GET /api/access-logs

DefaultLimit == 50
\* the query of the request: ?limit=n or no limit
Queries ==
  {[given |-> FALSE, limit |-> 0]} \cup {[given |-> TRUE, limit |-> n] : n \in 0..MaxLimit}

\* req.query.limit ? parseInt(req.query.limit) : 50, then getRecentAccessLogs
GetAccessLogs(query) ==
  getRecentAccessLogs(IF query.given THEN query.limit ELSE DefaultLimit)

\* ------------------------------------------------------------- alert routes

\* (mutant) the alert is replaced by a record that is read and nothing else
markAlertAsRead_LosesFields(store, id) ==
  IF id \in DOMAIN store
  THEN [store EXCEPT ![id] = [id |-> id, isRead |-> TRUE]]
  ELSE store

\* markAlertAsRead(id) on a store of alerts: `if (alert)` guards the update
markAlertAsRead(store, id) ==
  IF id \in DOMAIN store
  THEN [store EXCEPT ![id] = [@ EXCEPT !.isRead = TRUE]]
  ELSE store

\* markAlertAsRead has no throw: an id that matches no alert is passed over
markAlertAsReadThrows(store, id) == FALSE

\* PUT /api/alerts/:id/read; the id of the path is that of an alert or not
MarkAlertAsRead ==
  /\ CanAdmin
  /\ nAdmin' = nAdmin + 1
  /\ \E id \in 1..(Len(alerts) + 1) :
       IF markAlertAsReadThrows(alerts, id)
       THEN /\ lastRead' = [id |-> id, status |-> 500]
            /\ UNCHANGED alerts
       ELSE /\ alerts' = markAlertAsRead(alerts, id)
            /\ lastRead' = [id |-> id, status |-> 200]
  /\ UNCHANGED <<storeVars, accessLogs, wsVars, inbox, calls, adm, received, clientVars>>
  /\ Observed

\* ------------------------------------------------------------ WebSocket server

\* wss.on('connection'): add to the set, send { type: 'connected' }
Connect ==
  /\ CanConnect
  /\ LET ws == Len(readyState) + 1 IN
       /\ connectedClients' = Append(connectedClients, ws)
       /\ readyState' = Append(readyState, "OPEN")
       /\ inbox' = Append(inbox, <<Msg("connected", NoId, NoId, NoId)>>)
  /\ UNCHANGED <<storeVars, accessLogs, alerts, calls, adm, nAdmin, lastRead, received, clientVars>>
  /\ Observed

\* (mutant) every inbound message is answered with a pong
OnMessage_AnswersAll(ws) ==
  /\ CanReceive
  /\ readyState[ws] = "OPEN"
  /\ \E data \in {"ping", "subscribe", "not json"} :
       /\ received' = Append(received, [ws |-> ws, data |-> data])
       /\ inbox' = [inbox EXCEPT ![ws] = Append(@, Msg("pong", NoId, NoId, NoId))]
  /\ UNCHANGED <<storeVars, accessLogs, alerts, wsVars, calls, adm, nAdmin, lastRead, clientVars>>
  /\ Observed

\* what an observer may send: a ping, a message of another type, bytes that
\* are not JSON
Inbound == {"ping", "subscribe", "not json"}

\* ws.on('message'): JSON.parse in a try; `if (message.type === 'ping')`
\* ws.send(pong); anything else, and a parse error, is logged only
OnMessage(ws) ==
  /\ CanReceive
  /\ readyState[ws] = "OPEN"
  /\ \E data \in Inbound :
       /\ received' = Append(received, [ws |-> ws, data |-> data])
       /\ inbox' = IF data = "ping"
                   THEN [inbox EXCEPT ![ws] = Append(@, Msg("pong", NoId, NoId, NoId))]
                   ELSE inbox
  /\ UNCHANGED <<storeVars, accessLogs, alerts, wsVars, calls, adm, nAdmin, lastRead, clientVars>>
  /\ Observed

\* the transport starts closing: the socket is still in the set, no longer OPEN
StartClosing(ws) ==
  /\ readyState[ws] = "OPEN"
  /\ readyState' = [readyState EXCEPT ![ws] = "CLOSING"]
  /\ UNCHANGED <<storeVars, accessLogs, alerts, connectedClients, inbox, calls, adm, nAdmin, lastRead, received, clientVars>>
  /\ Observed

\* (mutant) the close handler does not take the socket out of the set
Close_LeavesInSet(ws) ==
  /\ readyState[ws] \in {"OPEN", "CLOSING"}
  /\ readyState' = [readyState EXCEPT ![ws] = "CLOSED"]
  /\ UNCHANGED <<storeVars, accessLogs, alerts, connectedClients, inbox, calls, adm, nAdmin, lastRead, received, clientVars>>
  /\ Observed

\* ws.on('close'): connectedClients.delete(ws)
Close(ws) ==
  /\ readyState[ws] \in {"OPEN", "CLOSING"}
  /\ readyState' = [readyState EXCEPT ![ws] = "CLOSED"]
  /\ connectedClients' = SelectSeq(connectedClients, LAMBDA k : k # ws)
  /\ UNCHANGED <<storeVars, accessLogs, alerts, inbox, calls, adm, nAdmin, lastRead, received, clientVars>>
  /\ Observed

\* -------------------------------------------------------------------- Next

Next ==
  \/ VerifyAccess_Invalid
  \/ VerifyAccess_Start
  \/ \E c \in 1..Len(calls) : VerifyAccess_Vehicle(c)
  \/ \E c \in 1..Len(calls) : VerifyAccess_Log(c)
  \/ \E c \in 1..Len(calls) : VerifyAccess_Alert(c)
  \/ \E c \in 1..Len(calls) : VerifyAccess_Finish(c)
  \/ GrantAccess_Start
  \/ \E c \in 1..Len(calls) : GrantAccess_Vehicle(c)
  \/ \E c \in 1..Len(calls) : GrantAccess_Log(c)
  \/ \E c \in 1..Len(calls) : GrantAccess_Finish(c)
  \/ DenyAccess_Start
  \/ \E c \in 1..Len(calls) : DenyAccess_Vehicle(c)
  \/ \E c \in 1..Len(calls) : DenyAccess_Log(c)
  \/ \E c \in 1..Len(calls) : DenyAccess_Alert(c)
  \/ \E c \in 1..Len(calls) : DenyAccess_Finish(c)
  \/ RegisterStudent_Create
  \/ \E a \in 1..Len(adm) : RegisterStudent_Vehicle(a)
  \/ \E a \in 1..Len(adm) : RegisterStudent_Finish(a)
  \/ UpdateStudent
  \/ DeleteStudent_Delete
  \/ \E a \in 1..Len(adm) : DeleteStudent_Finish(a)
  \/ MarkAlertAsRead
  \/ Connect
  \/ \E ws \in 1..Len(readyState) : OnMessage(ws)
  \/ \E ws \in 1..Len(readyState) : StartClosing(ws)
  \/ \E ws \in 1..Len(readyState) : Close(ws)

Spec == Init /\ [][Next]_vars

\* ------------------------------------------------ client: camera station

StationGate == "Gate 1"

\* verifyAccessMutation.mutate(data): mutationFn sends POST /api/verify-access
mutate(st, data) ==
  [st EXCEPT !.inFlight = Append(@, data), !.posted = @ + 1]

\* handlePlateDetection(plateNumber): the plate is kept; with a scanned id the
\* request is sent
HandlePlateDetection ==
  /\ station.posted < MaxPosts
  /\ \E plateNumber \in Plates :
       station' =
         IF station.scannedStudentId # Missing /\ plateNumber # Missing
         THEN mutate([station EXCEPT !.detectedPlate = plateNumber, !.isVerifying = TRUE],
                     <<station.scannedStudentId, plateNumber, StationGate>>)
         ELSE [station EXCEPT !.detectedPlate = plateNumber]
  /\ UNCHANGED <<serverVars, hookVars>>

\* handleBarcodeScanned(studentId): the id is kept; with a detected plate the
\* request is sent
HandleBarcodeScanned ==
  /\ station.posted < MaxPosts
  /\ \E studentId \in Tokens :
       station' =
         IF station.detectedPlate # Missing /\ studentId # Missing
         THEN mutate([station EXCEPT !.scannedStudentId = studentId, !.isVerifying = TRUE],
                     <<studentId, station.detectedPlate, StationGate>>)
         ELSE [station EXCEPT !.scannedStudentId = studentId]
  /\ UNCHANGED <<serverVars, hookVars>>

\* the Verify Access button, disabled without both tokens or while verifying
HandleManualVerify ==
  /\ station.posted < MaxPosts
  /\ ~(station.scannedStudentId = Missing \/ station.detectedPlate = Missing
       \/ station.isVerifying)
  /\ station' = mutate([station EXCEPT !.isVerifying = TRUE],
                       <<station.scannedStudentId, station.detectedPlate, StationGate>>)
  /\ UNCHANGED <<serverVars, hookVars>>

\* onSuccess of a request in flight: setIsVerifying(false), and the
\* 3-second timeout that clears the tokens is set
OnSuccess ==
  /\ \E r \in 1..Len(station.inFlight) :
       station' = [station EXCEPT !.inFlight = RemoveAt(@, r), !.isVerifying = FALSE,
                                  !.clearTimers = @ + 1]
  /\ UNCHANGED <<serverVars, hookVars>>

\* onError of a request in flight: setIsVerifying(false)
OnError ==
  /\ \E r \in 1..Len(station.inFlight) :
       station' = [station EXCEPT !.inFlight = RemoveAt(@, r), !.isVerifying = FALSE]
  /\ UNCHANGED <<serverVars, hookVars>>

\* the timeout set by onSuccess fires
ClearDetected ==
  /\ station.clearTimers > 0
  /\ station' = [station EXCEPT !.detectedPlate = Missing, !.scannedStudentId = Missing,
                                !.clearTimers = @ - 1]
  /\ UNCHANGED <<serverVars, hookVars>>

\* handleReset
HandleReset ==
  /\ station' = [station EXCEPT !.detectedPlate = Missing, !.scannedStudentId = Missing,
                                !.isVerifying = FALSE]
  /\ UNCHANGED <<serverVars, hookVars>>

StationNext ==
  \/ HandlePlateDetection
  \/ HandleBarcodeScanned
  \/ HandleManualVerify
  \/ OnSuccess
  \/ OnError
  \/ ClearDetected
  \/ HandleReset

StationSpec == Init /\ [][StationNext]_vars

\* ------------------------------------------------ client: useWebSocket hook

maxReconnectAttempts == 5
NormalClosure == 1000
\* the code of the close event when close() was called without a code
NoStatusReceived == 1005
\* the code of the close event when the connection failed or was lost
AbnormalClosure == 1006

\* connect(): wsRef.current = new WebSocket(wsUrl), with the handlers set
connect ==
  /\ socketsCreated' = socketsCreated + 1
  /\ wsRef' = socketsCreated + 1

\* ws.close(code) on wsRef.current: an open socket starts the closing
\* handshake with that code, a connecting one is failed, a closing or closed
\* one is left alone
CloseCurrent(code) ==
  IF wsRef \in DOMAIN clientSockets
  THEN [clientSockets EXCEPT ![wsRef] =
          IF @.readyState = "OPEN" THEN [readyState |-> "CLOSING", code |-> code]
          ELSE IF @.readyState = "CONNECTING"
               THEN [readyState |-> "CLOSING", code |-> AbnormalClosure]
               ELSE @]
  ELSE clientSockets

\* onopen of socket s: the counter is reset and a ping interval is set
SocketOpens(s) ==
  /\ clientSockets[s].readyState = "CONNECTING"
  /\ clientSockets' = [clientSockets EXCEPT ![s].readyState = "OPEN"]
  /\ reconnectAttempts' = 0
  /\ pingIntervals' = pingIntervals \cup {s}
  /\ automaticAttempts' = 0
  /\ UNCHANGED <<serverVars, station, socketsCreated, wsRef, reconnectTimeoutRef,
                 pendingTimeouts, lastPing, mounted>>

\* the codes the close event of a socket can carry: that of the handshake the
\* client started; for a connection that never opened, a failure; for an open
\* one, a normal close by the server or a loss
CloseCodes(socket) ==
  IF socket.readyState = "CLOSING" THEN {socket.code}
  ELSE IF socket.readyState = "CONNECTING" THEN {AbnormalClosure}
  ELSE {NormalClosure, AbnormalClosure}

\* onclose of socket s: a reconnect timeout is set when the close was not
\* clean and the counter is below the maximum
SocketCloses(s) ==
  /\ \E code \in CloseCodes(clientSockets[s]) :
       IF code # NormalClosure /\ reconnectAttempts < maxReconnectAttempts
       THEN /\ pendingTimeouts' = pendingTimeouts \cup {s}
            /\ reconnectTimeoutRef' = s
       ELSE UNCHANGED <<pendingTimeouts, reconnectTimeoutRef>>
  /\ clientSockets' = [k \in DOMAIN clientSockets \ {s} |-> clientSockets[k]]
  /\ UNCHANGED <<serverVars, station, socketsCreated, wsRef, reconnectAttempts,
                 pingIntervals, lastPing, mounted, automaticAttempts>>

\* a reconnect timeout fires: reconnectAttempts.current++; connect()
TimeoutFires(t) ==
  /\ socketsCreated < MaxSockets
  /\ pendingTimeouts' = pendingTimeouts \ {t}
  /\ reconnectAttempts' = reconnectAttempts + 1
  /\ automaticAttempts' = automaticAttempts + 1
  /\ connect
  /\ clientSockets' = clientSockets @@
       ((socketsCreated + 1) :> [readyState |-> "CONNECTING", code |-> NoId])
  /\ UNCHANGED <<serverVars, station, reconnectTimeoutRef, pingIntervals, lastPing,
                 mounted>>

\* a ping interval ticks: a ping on wsRef.current if that is open, else the
\* interval clears itself
PingTick(i) ==
  /\ IF wsRef \in DOMAIN clientSockets /\ clientSockets[wsRef].readyState = "OPEN"
     THEN lastPing' = i /\ UNCHANGED pingIntervals
     ELSE pingIntervals' = pingIntervals \ {i} /\ UNCHANGED lastPing
  /\ UNCHANGED <<serverVars, station, clientSockets, socketsCreated, wsRef,
                 reconnectTimeoutRef, reconnectAttempts, pendingTimeouts, mounted,
                 automaticAttempts>>

\* reconnect(): wsRef.current.close(); reconnectAttempts.current = 0; connect()
Reconnect ==
  /\ mounted
  /\ socketsCreated < MaxSockets
  /\ reconnectAttempts' = 0
  /\ automaticAttempts' = 0
  /\ connect
  /\ clientSockets' = CloseCurrent(NoStatusReceived) @@
       ((socketsCreated + 1) :> [readyState |-> "CONNECTING", code |-> NoId])
  /\ UNCHANGED <<serverVars, station, reconnectTimeoutRef, pendingTimeouts,
                 pingIntervals, lastPing, mounted>>

\* the cleanup of the effect: clearTimeout(reconnectTimeoutRef.current);
\* wsRef.current.close(1000, "Component unmounting")
Unmount ==
  /\ mounted
  /\ mounted' = FALSE
  /\ pendingTimeouts' = pendingTimeouts \ {reconnectTimeoutRef}
  /\ clientSockets' = CloseCurrent(NormalClosure)
  /\ UNCHANGED <<serverVars, station, socketsCreated, wsRef, reconnectTimeoutRef,
                 reconnectAttempts, pingIntervals, lastPing, automaticAttempts>>

HookNext ==
  \/ \E s \in DOMAIN clientSockets : SocketOpens(s)
  \/ \E s \in DOMAIN clientSockets : SocketCloses(s)
  \/ \E t \in pendingTimeouts : TimeoutFires(t)
  \/ \E i \in pingIntervals : PingTick(i)
  \/ Reconnect
  \/ Unmount

HookSpec == Init /\ [][HookNext]_vars

\* ------------------------------------------------------------------ claims

Verifies == {c \in 1..Len(calls) : calls[c].kind = "verify"}
Quiescent == \A c \in 1..Len(calls) : calls[c].pc = "done"
\* the call has answered with a result (not with an error)
Returned(c) == calls[c].pc = "done" /\ calls[c].status = 200
LogOf(c) == accessLogs[calls[c].logId]
AlertOf(c) == alerts[calls[c].alertId]
Contains(seq, x) == \E i \in 1..Len(seq) : seq[i] = x

\* no two student records share an external id (createStudent keeps it so;
\* updateStudent does not look)
UniqueStudentIds ==
  \A i \in DOMAIN students, j \in DOMAIN students :
    students[i].studentId = students[j].studentId => i = j

\* C1: on every store and for every (identity token, plate token),
\* verifyStudentAndVehicle answers isValid = true exactly when a record with
\* that external id exists, a vehicle with exactly that plate exists, the
\* vehicle's owner reference is the internal id of the identity the token
\* resolves to (the first record with that external id), and both active flags
\* are true; a valid answer has no reason.  Where external ids are unique
\* this is: some identity with that id and some vehicle with that plate
\* exist, the vehicle is owned by that identity, and both are active.
C1_ValidIffMatchingActivePair ==
  \A studentId \in Tokens, plateNumber \in Plates :
    LET r == verifyStudentAndVehicle(studentId, plateNumber)
        s == getStudentByStudentId(studentId)
        v == getVehicleByPlate(plateNumber)
    IN  /\ r.isValid <=>
             /\ \E i \in DOMAIN students : students[i].studentId = studentId
             /\ \E j \in DOMAIN vehicles : vehicles[j].plateNumber = plateNumber
             /\ v.studentId = s.id
             /\ s.isActive /\ v.isActive
        /\ r.isValid => r.reason = NoReason
        /\ UniqueStudentIds =>
             (r.isValid <=>
                \E i \in DOMAIN students, j \in DOMAIN vehicles :
                  /\ students[i].studentId = studentId
                  /\ vehicles[j].plateNumber = plateNumber
                  /\ vehicles[j].studentId = students[i].id
                  /\ students[i].isActive /\ vehicles[j].isActive)

\* a verify call has granted, and another pair of the same store is refused
\* only because a flag is false
C1_Witness ==
  /\ \E c \in Verifies : Returned(c) /\ calls[c].isValid
  /\ \E studentId \in Tokens, plateNumber \in Plates :
       /\ ~verifyStudentAndVehicle(studentId, plateNumber).isValid
       /\ getVehicleByPlate(plateNumber).id # NoId
       /\ getVehicleByPlate(plateNumber).studentId = getStudentByStudentId(studentId).id

\* C2: every 'granted' log entry was written by a verify call with a valid
\* verdict or by a grant-access call, and every entry written by a verify
\* call with an invalid verdict or by deny-access is 'denied'.
C2_GrantedIffValidOrManualGrant ==
  /\ \A i \in 1..Len(accessLogs) :
       accessLogs[i].accessStatus = "granted" =>
         \E c \in 1..Len(calls) :
           /\ calls[c].logId = i
           /\ \/ calls[c].kind = "verify" /\ calls[c].isValid
              \/ calls[c].kind = "grant"
  /\ \A c \in 1..Len(calls) :
       /\ calls[c].logId # NoId
       /\ \/ calls[c].kind = "verify" /\ ~calls[c].isValid
          \/ calls[c].kind = "deny"
       => LogOf(c).accessStatus = "denied"

\* one entry granted by a verify call and one denied by a verify call
C2_Witness ==
  /\ \E c \in Verifies : calls[c].logId # NoId /\ LogOf(c).accessStatus = "granted"
  /\ \E c \in Verifies : calls[c].logId # NoId /\ LogOf(c).accessStatus = "denied"

\* every log entry was written by exactly one call, every alert by exactly one
WriterOfLog(i) == {c \in 1..Len(calls) : calls[c].logId = i}
WriterOfAlert(a) == {c \in 1..Len(calls) : calls[c].alertId = a}
DeniedLogs == {i \in 1..Len(accessLogs) : accessLogs[i].accessStatus = "denied"}
AlertWriteFailed == {c \in 1..Len(calls) : calls[c].error = "alert"}

\* C3 (as stated): with no call in flight, each denied log entry has exactly
\* one alert created by the call that wrote the entry, no alert was created by
\* a granting verify call or by grant-access, and there are as many alerts as
\* denied log entries.
C3_AsStated ==
  Quiescent =>
    /\ \A i \in DeniedLogs : \E c \in WriterOfLog(i) : calls[c].alertId # NoId
    /\ \A a \in 1..Len(alerts) : Cardinality(WriterOfAlert(a)) = 1
    /\ \A c \in 1..Len(calls) :
         (calls[c].kind = "verify" /\ calls[c].isValid) \/ calls[c].kind = "grant"
           => calls[c].alertId = NoId
    /\ Len(alerts) = Cardinality(DeniedLogs)

\* C3 (amended): with no call in flight, each denied log entry whose call did
\* not fail in its alert write has exactly one alert created by that call; a
\* call whose alert write failed leaves its denied entry without an alert; no
\* alert was created by a granting verify call or by grant-access; so there
\* are as many alerts as denied entries less the failed alert writes.
C3_AlertIffDenialUnlessAlertWriteFails ==
  Quiescent =>
    /\ \A i \in DeniedLogs : \E c \in WriterOfLog(i) :
         IF c \in AlertWriteFailed THEN calls[c].alertId = NoId
                                   ELSE calls[c].alertId # NoId
    /\ \A a \in 1..Len(alerts) :
         /\ Cardinality(WriterOfAlert(a)) = 1
         /\ \A c \in WriterOfAlert(a) :
              calls[c].logId # NoId /\ LogOf(c).accessStatus = "denied"
    /\ \A c \in 1..Len(calls) :
         (calls[c].kind = "verify" /\ calls[c].isValid) \/ calls[c].kind = "grant"
           => calls[c].alertId = NoId
    /\ Len(alerts) = Cardinality(DeniedLogs) - Cardinality(AlertWriteFailed)

\* at rest: a denied verification with its alert, and a denial whose alert
\* write failed
C3_Witness ==
  /\ Quiescent
  /\ \E c \in Verifies : Returned(c) /\ ~calls[c].isValid /\ calls[c].alertId # NoId
  /\ AlertWriteFailed # {}

\* the verify call looked the identity token up and found no record
IdentityNotFound(c) ==
  /\ calls[c].kind = "verify" /\ calls[c].status # 400
  /\ calls[c].pc # "vehicle" /\ calls[c].student.id = NoId

\* what C4 says of a call, with the reason string left open
UnknownIdentityOutcome(c, reason) ==
  /\ ~calls[c].isValid /\ calls[c].vreason = reason
  /\ Returned(c) => calls[c].logId # NoId /\ calls[c].alertId # NoId
  /\ calls[c].logId # NoId =>
       /\ WriterOfLog(calls[c].logId) = {c}
       /\ LogOf(c).accessStatus = "denied"
       /\ LogOf(c).studentId = NoId
  /\ calls[c].alertId # NoId =>
       /\ WriterOfAlert(calls[c].alertId) = {c}
       /\ AlertOf(c).metadata.studentId = calls[c].studentId
       /\ AlertOf(c).metadata.studentId \in Tokens

\* C4 (as stated): an identity token that matches no record gives
\* isValid = false with reason "Identity not found", exactly one 'denied' log
\* entry, and an alert that references no resolved identity.
C4_AsStated ==
  \A c \in 1..Len(calls) :
    IdentityNotFound(c) => UnknownIdentityOutcome(c, "Identity not found")

\* C4 (amended): an identity token that matches no record gives
\* isValid = false with reason "Student ID not found", exactly one 'denied'
\* log entry with a null identity reference, and one alert that carries the
\* raw token and no internal id.
C4_UnknownIdentityIsDeniedAndLogged ==
  \A c \in 1..Len(calls) :
    IdentityNotFound(c) => UnknownIdentityOutcome(c, "Student ID not found")

\* a verify call for an unknown token has answered, while the plate it
\* carried is registered
C4_Witness ==
  \E c \in 1..Len(calls) :
    /\ IdentityNotFound(c) /\ Returned(c)
    /\ getVehicleByPlate(calls[c].plateNumber).id # NoId

\* the reason the cascade must give for a pair of lookup results, by the
\* first check that fails, with the wrong-owner string left open
FirstFailingCheck(student, vehicle, wrongOwner) ==
  IF student.id = NoId THEN "Student ID not found"
  ELSE IF vehicle.id = NoId THEN "Vehicle not registered"
  ELSE IF vehicle.studentId # student.id THEN wrongOwner
  ELSE IF ~student.isActive \/ ~vehicle.isActive THEN "Student or vehicle is inactive"
  ELSE NoReason

ReasonFollowsFirstFailingCheck(wrongOwner) ==
  /\ \A studentId \in Tokens, plateNumber \in Plates :
       verifyStudentAndVehicle(studentId, plateNumber).reason =
         FirstFailingCheck(getStudentByStudentId(studentId),
                           getVehicleByPlate(plateNumber), wrongOwner)
  /\ \A c \in Verifies :
       /\ calls[c].pc # "vehicle" /\ calls[c].status # 400
       /\ calls[c].student.id # NoId /\ calls[c].vehicle.id # NoId
       /\ calls[c].vehicle.studentId # calls[c].student.id
       => ~calls[c].isValid /\ calls[c].vreason = wrongOwner

\* C5 (as stated): the reason is that of the first failing check in the order
\* not-found, not-registered, wrong owner, inactive; a registered vehicle of
\* another identity gives "Vehicle does not belong to this identity" also
\* when a flag is false, and an unknown identity gives the not-found reason
\* also when the plate is unregistered.
C5_AsStated == ReasonFollowsFirstFailingCheck("Vehicle does not belong to this identity")

\* C5 (amended): the same order of checks, the wrong-owner reason being
\* "Vehicle does not belong to this student".
C5_ReasonIsFirstFailingCheck ==
  ReasonFollowsFirstFailingCheck("Vehicle does not belong to this student")

\* a verify call met a vehicle of another identity while a flag was false,
\* and an unknown identity token goes with an unregistered plate
C5_Witness ==
  /\ \E c \in Verifies :
       /\ Returned(c)
       /\ calls[c].student.id # NoId /\ calls[c].vehicle.id # NoId
       /\ calls[c].vehicle.studentId # calls[c].student.id
       /\ ~calls[c].student.isActive \/ ~calls[c].vehicle.isActive
  /\ \E studentId \in Tokens, plateNumber \in Plates :
       /\ getStudentByStudentId(studentId).id = NoId
       /\ getVehicleByPlate(plateNumber).id = NoId

\* the verify call found the identity and no vehicle with the plate
VehicleNotFound(c) ==
  /\ calls[c].kind = "verify" /\ calls[c].status # 400
  /\ calls[c].pc # "vehicle"
  /\ calls[c].student.id # NoId /\ calls[c].vehicle.id = NoId

\* C6: for an existing identity and a plate that matches no vehicle, verify
\* gives isValid = false with reason "Vehicle not registered", writes exactly
\* one 'denied' log entry whose vehicle reference is null and whose plate is
\* the raw plate token, and exactly one 'critical' alert whose description
\* contains that token.
C6_UnregisteredPlateIsDeniedWithRawPlate ==
  \A c \in 1..Len(calls) :
    VehicleNotFound(c) =>
      /\ ~calls[c].isValid /\ calls[c].vreason = "Vehicle not registered"
      /\ Returned(c) => calls[c].logId # NoId /\ calls[c].alertId # NoId
      /\ calls[c].logId # NoId =>
           /\ WriterOfLog(calls[c].logId) = {c}
           /\ LogOf(c).accessStatus = "denied"
           /\ LogOf(c).vehicleId = NoId
           /\ LogOf(c).studentId = calls[c].student.id
           /\ LogOf(c).plateNumber = calls[c].plateNumber
           /\ LogOf(c).plateNumber \in Plates
      /\ calls[c].alertId # NoId =>
           /\ WriterOfAlert(calls[c].alertId) = {c}
           /\ AlertOf(c).severity = "critical"
           /\ Contains(AlertOf(c).description, calls[c].plateNumber)

\* such a call has answered
C6_Witness ==
  \E c \in 1..Len(calls) :
    /\ VehicleNotFound(c) /\ Returned(c)
    /\ Len(accessLogs) = 1 /\ Len(alerts) = 1

\* a step in which a new verify request was received
VerifyReceived ==
  /\ Len(calls') = Len(calls) + 1
  /\ calls'[Len(calls')].kind = "verify"
FieldMissing(call) ==
  call.studentId = Missing \/ call.plateNumber = Missing \/ call.gateLocation = Missing

\* C7: a verify request with a missing or empty identity token, plate token or
\* gate location is answered 400 in the step that receives it; the students,
\* vehicles, access logs and alerts are unchanged, no lookup result is taken,
\* nothing is broadcast, and the call takes no further step.
C7_InvalidRequestHasNoEffect ==
  [][ /\ VerifyReceived /\ FieldMissing(calls'[Len(calls')]) =>
           /\ calls'[Len(calls')].status = 400
           /\ calls'[Len(calls')].pc = "done"
           /\ calls'[Len(calls')].student = NoStudent
           /\ calls'[Len(calls')].vehicle = NoVehicle
           /\ calls'[Len(calls')].logId = NoId
           /\ calls'[Len(calls')].alertId = NoId
           /\ UNCHANGED <<students, vehicles, accessLogs, alerts, inbox>>
      /\ \A c \in 1..Len(calls) : calls[c].status = 400 => calls'[c] = calls[c]
    ]_vars

\* a request without gate location was refused while an identity, a vehicle
\* and an open observer were there
C7_Witness ==
  /\ \E c \in Verifies :
       /\ calls[c].status = 400
       /\ calls[c].studentId # Missing /\ calls[c].plateNumber # Missing
       /\ getStudentByStudentId(calls[c].studentId).id # NoId
       /\ getVehicleByPlate(calls[c].plateNumber).id # NoId
  /\ \E k \in DOMAIN readyState : readyState[k] = "OPEN"

\* the step in which verify call c does its broadcasts and answers
VerifyFinishes(c) ==
  /\ c \in 1..Len(calls)
  /\ calls[c].kind = "verify" /\ calls[c].pc = "finish"
  /\ Len(calls') = Len(calls) /\ calls'[c].pc = "done"
Listening == {k \in DOMAIN readyState : readyState[k] = "OPEN" /\ InSet(k)}
AccessLogEvents(box, logId) ==
  {n \in 1..Len(box) : box[n].type = "access_log" /\ box[n].id = logId}
NewEvents(k) == SubSeq(inbox'[k], Len(inbox[k]) + 1, Len(inbox'[k]))

\* C8 (as stated): a send that throws for one observer does not stop the
\* delivery of the same event to the other open observers, and the verify
\* call still answers with its normal success response.
C8_SendFailureIsIsolated ==
  [][ \A c \in 1..Len(calls) : VerifyFinishes(c) =>
        /\ calls'[c].status = 200
        /\ \A k \in Listening :
             k # calls'[c].threwAt =>
               Cardinality(AccessLogEvents(NewEvents(k), calls[c].logId)) = 1
    ]_vars

\* C9: when a verify call answers 200, every observer that is in the
\* connected set with an open transport at the broadcast has received exactly
\* one access_log event, whose id is the id of the call's access log; an
\* observer that is not in the set or not open has received nothing; and the
\* call answers 500 from its broadcasts only if the send to an open observer
\* of the set threw.
C9_OpenObserversGetTheAccessLog ==
  [][ \A c \in 1..Len(calls) : VerifyFinishes(c) =>
        /\ calls'[c].status = 200 =>
             /\ calls'[c].logId = calls[c].logId /\ calls[c].logId # NoId
             /\ \A k \in Listening :
                  /\ Cardinality(AccessLogEvents(NewEvents(k), calls[c].logId)) = 1
                  /\ \A n \in 1..Len(NewEvents(k)) :
                       NewEvents(k)[n].type = "access_log" =>
                         NewEvents(k)[n].id = calls[c].logId
             /\ \A k \in DOMAIN readyState \ Listening : inbox'[k] = inbox[k]
        /\ calls'[c].status # 200 => calls'[c].threwAt \in Listening
        /\ \A k \in DOMAIN readyState \ Listening : inbox'[k] = inbox[k]
    ]_vars

\* a verify call has answered 200; one observer holds its access_log event,
\* another, not open, holds none
C9_Witness ==
  \E c \in Verifies :
    /\ Returned(c)
    /\ \E k \in DOMAIN inbox :
         Cardinality(AccessLogEvents(inbox[k], calls[c].logId)) = 1
    /\ \E k \in DOMAIN inbox :
         /\ readyState[k] # "OPEN"
         /\ AccessLogEvents(inbox[k], calls[c].logId) = {}

LogEventTypes == {"access_log", "access_granted", "access_denied"}

\* C10: a verify call reaches its broadcasts only with its log written and,
\* if it denied, its alert written; and every log event an observer holds
\* carries the id of a persisted access log with the references of that
\* record, every new_alert event the id of a persisted alert.
C10_BroadcastOnlyWhatIsPersisted ==
  /\ \A c \in Verifies :
       calls[c].pc = "finish" =>
         /\ calls[c].logId \in 1..Len(accessLogs)
         /\ ~calls[c].isValid => calls[c].alertId \in 1..Len(alerts)
  /\ \A k \in DOMAIN inbox : \A n \in 1..Len(inbox[k]) :
       LET event == inbox[k][n] IN
         /\ event.type \in LogEventTypes =>
              /\ event.id \in 1..Len(accessLogs)
              /\ accessLogs[event.id].studentId = event.student
              /\ accessLogs[event.id].vehicleId = event.vehicle
         /\ event.type = "new_alert" => event.id \in 1..Len(alerts)

\* an observer holds the new_alert and the access_log of a denied verify call
C10_Witness ==
  \E c \in Verifies : \E k \in DOMAIN inbox :
    /\ Returned(c) /\ ~calls[c].isValid
    /\ \E n \in 1..Len(inbox[k]) :
         inbox[k][n].type = "new_alert" /\ inbox[k][n].id = calls[c].alertId
    /\ AccessLogEvents(inbox[k], calls[c].logId) # {}

\* verify calls that passed validation and whose log write did not fail
LoggedVerifies ==
  {c \in Verifies : calls[c].status # 400 /\ calls[c].error # "log"
                    /\ calls[c].pc \notin {"vehicle", "log"}}

\* C11: verify calls that pass validation and meet no persistence failure,
\* sequential or interleaved, with equal inputs or not, each write exactly one
\* access log entry: the entries of different calls have different ids, each
\* entry is in the store with the status of its own call's verdict, and no
\* entry of the store is shared by two calls or written by none.
C11_OneLogEntryPerVerifyCall ==
  /\ \A c \in LoggedVerifies :
       /\ calls[c].logId \in 1..Len(accessLogs)
       /\ LogOf(c).id = calls[c].logId
       /\ WriterOfLog(calls[c].logId) = {c}
       /\ LogOf(c).accessStatus = IF calls[c].isValid THEN "granted" ELSE "denied"
       /\ LogOf(c).plateNumber = calls[c].plateNumber
  /\ \A i \in 1..Len(accessLogs) : Cardinality(WriterOfLog(i)) = 1
  /\ \A i \in 1..Len(accessLogs), j \in 1..Len(accessLogs) :
       accessLogs[i].id = accessLogs[j].id => i = j

\* two verify calls with the same inputs have both written; the one that
\* arrived second wrote first
C11_Witness ==
  \E c \in LoggedVerifies, d \in LoggedVerifies :
    /\ c < d
    /\ calls[c].studentId = calls[d].studentId
    /\ calls[c].plateNumber = calls[d].plateNumber
    /\ calls[c].gateLocation = calls[d].gateLocation
    /\ calls[d].logId < calls[c].logId

Grants == {c \in 1..Len(calls) : calls[c].kind = "grant"}
Denies == {c \in 1..Len(calls) : calls[c].kind = "deny"}
\* the step in which call c does its broadcasts and answers
Finishes(c) ==
  /\ c \in 1..Len(calls)
  /\ calls[c].pc = "finish"
  /\ Len(calls') = Len(calls) /\ calls'[c].pc = "done"
EventsOfType(box, type) == {n \in 1..Len(box) : box[n].type = type}

\* C12: a grant-access call, whatever its tokens resolve to, writes exactly one
\* log entry, 'granted' with metadata {manual: true}, whose identity and
\* vehicle references are those of the lookups (null where a lookup found
\* nothing); it writes no alert; and the step that answers it sends each open
\* observer of the set one access_granted event and sends nobody a new_alert.
C12_GrantWritesOneGrantedLogAndNoAlert ==
  /\ [](\A c \in Grants :
          /\ calls[c].alertId = NoId
          /\ calls[c].pc \in {"finish", "done"} /\ calls[c].error # "log" =>
               /\ calls[c].logId \in 1..Len(accessLogs)
               /\ WriterOfLog(calls[c].logId) = {c}
               /\ LogOf(c).accessStatus = "granted"
               /\ LogOf(c).metadata = "manual:true"
               /\ LogOf(c).studentId = calls[c].student.id
               /\ LogOf(c).vehicleId = calls[c].vehicle.id
               /\ calls[c].student.id = NoId \/ calls[c].student.studentId = calls[c].studentId
               /\ calls[c].vehicle.id = NoId \/ calls[c].vehicle.plateNumber = calls[c].plateNumber)
  /\ [][ \A c \in Grants : Finishes(c) =>
           /\ alerts' = alerts /\ accessLogs' = accessLogs
           /\ \A k \in DOMAIN inbox : EventsOfType(NewEvents(k), "new_alert") = {}
           /\ calls'[c].status = 200 =>
                \A k \in Listening :
                  NewEvents(k) = <<Msg("access_granted", calls[c].logId,
                                       calls[c].student.id, calls[c].vehicle.id)>>
     ]_vars

\* a grant for a plate without identity token has answered, an observer
\* holding its event
C12_Witness ==
  \E c \in Grants :
    /\ Returned(c)
    /\ calls[c].student.id = NoId /\ calls[c].vehicle.id # NoId
    /\ \E k \in DOMAIN inbox : \E n \in 1..Len(inbox[k]) :
         inbox[k][n].type = "access_granted" /\ inbox[k][n].id = calls[c].logId

\* C13: a deny-access call that meets no persistence failure writes exactly
\* one 'denied' log entry and exactly one alert, whether or not the identity
\* or the vehicle resolves and also without identity token (the identity
\* reference is then null); the entry's reason is the caller's reason, or
\* 'Manual denial' when none is given.
C13_DenyWritesOneDeniedLogAndOneAlert ==
  \A c \in Denies :
    /\ calls[c].pc \in {"alert", "finish", "done"} /\ calls[c].error # "log" =>
         /\ calls[c].logId \in 1..Len(accessLogs)
         /\ WriterOfLog(calls[c].logId) = {c}
         /\ LogOf(c).accessStatus = "denied"
         /\ LogOf(c).studentId = calls[c].student.id
         /\ LogOf(c).vehicleId = calls[c].vehicle.id
         /\ calls[c].studentId = Missing => LogOf(c).studentId = NoId
         /\ LogOf(c).reason = IF calls[c].reason = Missing THEN "Manual denial"
                              ELSE calls[c].reason
    /\ calls[c].pc \in {"finish", "done"} /\ calls[c].error \notin {"log", "alert"} =>
         /\ calls[c].alertId \in 1..Len(alerts)
         /\ WriterOfAlert(calls[c].alertId) = {c}

\* two deny calls have answered: one without identity token and with a
\* reason, one without reason
C13_Witness ==
  /\ \E c \in Denies :
       Returned(c) /\ calls[c].studentId = Missing /\ calls[c].reason # Missing
  /\ \E c \in Denies :
       Returned(c) /\ calls[c].reason = Missing /\ LogOf(c).reason = "Manual denial"

\* C14: when the access log write of a verify call fails, the call answers
\* 500 in that step and takes no further step: no log and no alert is
\* written by it, the alert store is unchanged, and nothing is broadcast.
C14_LogWriteFailureAbortsTheCall ==
  [][ \A c \in Verifies :
        /\ calls[c].pc = "log" /\ calls'[c].error = "log" =>
             /\ calls'[c].pc = "done" /\ calls'[c].status = 500
             /\ calls'[c].logId = NoId /\ calls'[c].alertId = NoId
             /\ UNCHANGED <<accessLogs, alerts, inbox>>
        /\ calls[c].error = "log" => calls'[c] = calls[c]
    ]_vars

\* the log write of a verification that denied has failed, an open observer
\* looking on
C14_Witness ==
  /\ \E c \in Verifies :
       calls[c].error = "log" /\ ~calls[c].isValid /\ calls[c].status = 500
  /\ alerts = <<>> /\ accessLogs = <<>>
  /\ \E k \in Listening : Len(inbox[k]) = 1

\* C15: when the alert write of a denied verify call fails, the call answers
\* 500 and the log entry it wrote stays in the store, 'denied', with no alert
\* written by the call (every alert of the store belongs to another call).
C15_AlertWriteFailureKeepsTheLog ==
  /\ \A c \in Verifies :
       calls[c].error = "alert" =>
         /\ calls[c].pc = "done" /\ calls[c].status = 500
         /\ ~calls[c].isValid
         /\ calls[c].logId \in 1..Len(accessLogs)
         /\ WriterOfLog(calls[c].logId) = {c}
         /\ LogOf(c).accessStatus = "denied"
         /\ calls[c].alertId = NoId
  /\ \A a \in 1..Len(alerts) : Cardinality(WriterOfAlert(a)) = 1

\* at rest after a failed alert write: one denied entry, no alert
C15_Witness ==
  /\ Quiescent
  /\ \E c \in Verifies : calls[c].error = "alert"
  /\ Len(accessLogs) = 1 /\ accessLogs[1].accessStatus = "denied"
  /\ alerts = <<>>

\* C16: no step removes an access log entry or changes a field of one.
C16_AccessLogsAreAppendOnly ==
  [][ /\ Len(accessLogs') >= Len(accessLogs)
      /\ \A i \in 1..Len(accessLogs) : accessLogs'[i] = accessLogs[i]
    ]_vars

\* an entry has outlived the student it refers to
C16_Witness ==
  \E i \in 1..Len(accessLogs) :
    /\ accessLogs[i].studentId # NoId
    /\ accessLogs[i].studentId \notin DOMAIN students

\* the alert with only its read flag set
Read(alert) == [alert EXCEPT !.isRead = TRUE]

\* C17: an alert is created unread; no step removes an alert or changes
\* anything of one but its read flag, and only from false to true;
\* markAlertAsRead(id) sets the flag of the alert with that id and leaves all
\* else as it is, a second call changes nothing more, and for an id that
\* matches no alert it changes nothing; the route answers 200 in each case.
C17_OnlyTheReadFlagOfAnAlertChanges ==
  /\ [](/\ \A id \in 0..(Len(alerts) + 1) :
            LET marked == markAlertAsRead(alerts, id) IN
              /\ Len(marked) = Len(alerts)
              /\ \A a \in 1..Len(alerts) :
                   marked[a] = IF a = id THEN Read(alerts[a]) ELSE alerts[a]
              /\ markAlertAsRead(marked, id) = marked
              /\ id \notin 1..Len(alerts) => marked = alerts
        /\ lastRead.status \in {0, 200})
  /\ [][ /\ Len(alerts') >= Len(alerts)
         /\ \A a \in 1..Len(alerts) :
              \/ alerts'[a] = alerts[a]
              \/ /\ alerts'[a] = Read(alerts[a])
                 /\ lastRead'.id = a /\ lastRead'.status = 200
                 /\ \A b \in 1..Len(alerts) : b # a => alerts'[b] = alerts[b]
         /\ \A a \in (Len(alerts) + 1)..Len(alerts') : ~alerts'[a].isRead
         /\ nAdmin' # nAdmin /\ lastRead'.id \notin 1..Len(alerts) =>
              alerts' = alerts
     ]_vars

\* an alert has been marked as read, and the last request named no alert and
\* was answered 200
C17_Witness ==
  /\ \E a \in 1..Len(alerts) : alerts[a].isRead
  /\ lastRead.id \notin 1..Len(alerts) /\ lastRead.id # NoId
  /\ lastRead.status = 200

Closed(k) == readyState[k] = "CLOSED"

\* C18: the connected set holds each socket once and holds exactly the
\* sockets that have connected and whose close has not happened; a socket
\* that has closed stays closed and out of the set, and no later step sends
\* it anything.
C18_ConnectedSetIsTheOpenConnections ==
  /\ [](/\ \A k \in DOMAIN readyState : InSet(k) <=> ~Closed(k)
        /\ \A i \in 1..Len(connectedClients) :
             /\ connectedClients[i] \in DOMAIN readyState
             /\ \A j \in 1..Len(connectedClients) :
                  connectedClients[i] = connectedClients[j] => i = j
        /\ DOMAIN inbox = DOMAIN readyState)
  /\ [][ \A k \in DOMAIN readyState :
           /\ Closed(k) => readyState'[k] = "CLOSED" /\ inbox'[k] = inbox[k]
           /\ ~Closed(k) /\ readyState'[k] = "CLOSED" =>
                \A i \in 1..Len(connectedClients') : connectedClients'[i] # k
     ]_vars

\* a socket has closed having been sent the greeting only; another, connected
\* later, has been sent a broadcast
C18_Witness ==
  \E k \in DOMAIN readyState, m \in DOMAIN readyState :
    /\ k < m
    /\ Closed(k) /\ ~InSet(k) /\ Len(inbox[k]) = 1
    /\ InSet(m) /\ Len(inbox[m]) > 1

\* what the server sends to one socket alone: the greeting and the pong
DirectReplies == {"connected", "pong"}
StudentEventTypes == {"student_added", "student_deleted"}
AllEvents == UNION {{inbox[k][n] : n \in 1..Len(inbox[k])} : k \in DOMAIN inbox}
BroadcastEvents == {event \in AllEvents : event.type \notin DirectReplies}
\* the payload of a log event is a stored entry with the identity and the
\* vehicle the entry refers to; that of new_alert is a stored alert
CarriesPersistedRecord(event) ==
  /\ event.type \in LogEventTypes =>
       /\ event.id \in 1..Len(accessLogs)
       /\ event.student = accessLogs[event.id].studentId
       /\ event.vehicle = accessLogs[event.id].vehicleId
  /\ event.type = "new_alert" => event.id \in 1..Len(alerts)

\* C19 (as stated): every broadcast event has one of the types access_log,
\* access_granted, access_denied, new_alert and carries the persisted record.
C19_AsStated ==
  \A event \in BroadcastEvents :
    /\ event.type \in LogEventTypes \cup {"new_alert"}
    /\ CarriesPersistedRecord(event)

\* C19 (amended): every broadcast event has one of the types access_log,
\* access_granted, access_denied, new_alert, student_added, student_deleted;
\* the first four carry the persisted record (the log with the identity and
\* vehicle it refers to, or the alert), student_added carries the student
\* created with its vehicle, student_deleted only the id of the path.
C19_BroadcastEventTypesAndPayloads ==
  \A event \in BroadcastEvents :
    /\ event.type \in LogEventTypes \cup {"new_alert"} \cup StudentEventTypes
    /\ CarriesPersistedRecord(event)
    /\ event.type = "student_added" =>
         /\ event.id \in 1..nextStudent /\ event.student = event.id
         /\ event.vehicle \in 1..nextVehicle
    /\ event.type = "student_deleted" =>
         event.student = NoId /\ event.vehicle = NoId

\* an observer has been sent a student_added event and an access_log event
\* that names an identity and a vehicle
C19_Witness ==
  \E k \in DOMAIN inbox :
    /\ EventsOfType(inbox[k], "student_added") # {}
    /\ \E n \in EventsOfType(inbox[k], "access_log") :
         inbox[k][n].student # NoId /\ inbox[k][n].vehicle # NoId

\* C20: the step that handles an inbound message leaves the connected set,
\* the sockets' states, the stores and the gate requests as they are, so the
\* targets of later broadcasts are the same; a ping appends exactly one pong
\* to what its sender has been sent and nothing to anybody else; any other
\* message, well-formed or not, is answered to nobody.
C20_PingIsAnsweredWithOnePong ==
  [][ received' # received =>
        LET message == received'[Len(received')] IN
          /\ received' = Append(received, message)
          /\ UNCHANGED <<connectedClients, readyState, students, vehicles,
                         accessLogs, alerts, calls>>
          /\ \A k \in DOMAIN inbox : k # message.ws => inbox'[k] = inbox[k]
          /\ inbox'[message.ws] =
               IF message.data = "ping"
               THEN Append(inbox[message.ws], Msg("pong", NoId, NoId, NoId))
               ELSE inbox[message.ws]
          /\ \E i \in 1..Len(connectedClients') : connectedClients'[i] = message.ws
    ]_vars

\* an observer has sent a ping and bytes that are not JSON; it has been sent
\* the greeting, one pong and, after it, a broadcast
C20_Witness ==
  \E k \in DOMAIN inbox :
    /\ \E i \in 1..Len(received) : received[i] = [ws |-> k, data |-> "ping"]
    /\ \E i \in 1..Len(received) : received[i] = [ws |-> k, data |-> "not json"]
    /\ Cardinality(EventsOfType(inbox[k], "pong")) = 1
    /\ Len(inbox[k]) = 3 /\ inbox[k][2].type = "pong"
    /\ inbox[k][3].type \notin DirectReplies

Smaller(a, b) == IF a < b THEN a ELSE b
Returns(response, entry) == \E i \in 1..Len(response) : response[i].log = entry

\* C21: for every store and every limit >= 0, GET /api/access-logs returns
\* min(limit, total) entries of the store, each once, ordered by timestamp
\* newest first, and no entry left out is newer than an entry returned; a
\* request without limit is served as limit 50.
C21_RecentLogsAreTheNewestFirst ==
  \A query \in Queries :
    LET limit == IF query.given THEN query.limit ELSE 50
        response == GetAccessLogs(query)
    IN  /\ Len(response) = Smaller(limit, Len(accessLogs))
        /\ \A i \in 1..Len(response) : Contains(accessLogs, response[i].log)
        /\ \A i \in 1..Len(response), j \in 1..Len(response) :
             /\ response[i].log = response[j].log => i = j
             /\ i < j => response[i].log.timestamp >= response[j].log.timestamp
        /\ \A n \in 1..Len(accessLogs) :
             ~Returns(response, accessLogs[n]) =>
               \A i \in 1..Len(response) :
                 accessLogs[n].timestamp <= response[i].log.timestamp

\* two entries written at different times: limit 1 returns the second, no
\* limit returns the second before the first
C21_Witness ==
  /\ Len(accessLogs) = 2
  /\ accessLogs[1].timestamp < accessLogs[2].timestamp
  /\ Len(GetAccessLogs([given |-> TRUE, limit |-> 1])) = 1
  /\ GetAccessLogs([given |-> TRUE, limit |-> 1])[1].log = accessLogs[2]
  /\ Len(GetAccessLogs([given |-> FALSE, limit |-> 0])) = 2
  /\ GetAccessLogs([given |-> FALSE, limit |-> 0])[2].log = accessLogs[1]

UniquePlates ==
  \A i \in DOMAIN vehicles, j \in DOMAIN vehicles :
    vehicles[i].plateNumber = vehicles[j].plateNumber => i = j

\* C22: in every state of the in-memory store no two identity records share
\* an external id and no two vehicle records share a plate.
C22_ExternalIdsAndPlatesAreUnique == UniqueStudentIds /\ UniquePlates

\* what C23 compares of two verification results
SameVerdict(a, b) ==
  /\ a.isValid = b.isValid
  /\ a.reason = b.reason
  /\ (a.student.id = NoId) = (b.student.id = NoId)
  /\ (a.vehicle.id = NoId) = (b.vehicle.id = NoId)

\* C23: on the same records (records both stores can hold: external ids and
\* plates are unique columns of the database) and for the same token and
\* plate, every result of DrizzleStorage.verifyStudentAndVehicle has the
\* isValid, the reason and the null / non-null identity and vehicle of the
\* result of MemoryStorage.verifyStudentAndVehicle.
C23_StoragesVerifyAlike ==
  (UniqueStudentIds /\ UniquePlates) =>
    \A studentId \in Tokens, plateNumber \in Plates :
      \A result \in Drizzle_verifyStudentAndVehicle(studentId, plateNumber) :
        SameVerdict(result, verifyStudentAndVehicle(studentId, plateNumber))

\* a store on which the two agree on a grant, on a foreign vehicle, on an
\* inactive identity and on an unknown identity
C23_Witness ==
  /\ UniqueStudentIds /\ UniquePlates
  /\ \E studentId \in Tokens, plateNumber \in Plates :
       \E result \in Drizzle_verifyStudentAndVehicle(studentId, plateNumber) :
         result.isValid /\ verifyStudentAndVehicle(studentId, plateNumber).isValid
  /\ \E studentId \in Tokens, plateNumber \in Plates :
       \E result \in Drizzle_verifyStudentAndVehicle(studentId, plateNumber) :
         /\ result.reason = "Vehicle does not belong to this student"
         /\ SameVerdict(result, verifyStudentAndVehicle(studentId, plateNumber))
  /\ \E studentId \in Tokens, plateNumber \in Plates :
       \E result \in Drizzle_verifyStudentAndVehicle(studentId, plateNumber) :
         /\ result.reason \in {"Student or vehicle is inactive", "Student ID not found"}
         /\ SameVerdict(result, verifyStudentAndVehicle(studentId, plateNumber))

\* C24: when the identity token matches no record, the verification result
\* carries no identity and no vehicle, and so does the access log entry of
\* the call, whether or not the plate is that of a registered vehicle.
C24_UnknownIdentityDiscardsTheVehicle ==
  /\ \A studentId \in Tokens, plateNumber \in Plates :
       getStudentByStudentId(studentId).id = NoId =>
         /\ verifyStudentAndVehicle(studentId, plateNumber).student = NoStudent
         /\ verifyStudentAndVehicle(studentId, plateNumber).vehicle = NoVehicle
  /\ \A c \in 1..Len(calls) :
       IdentityNotFound(c) =>
         /\ calls[c].student.id = NoId /\ calls[c].vehicle.id = NoId
         /\ calls[c].logId # NoId =>
              LogOf(c).studentId = NoId /\ LogOf(c).vehicleId = NoId

\* the store was never changed, the plate of the call is registered, the
\* token is not, and the entry of the call is written
C24_Witness ==
  /\ nAdmin = 0
  /\ \E c \in 1..Len(calls) :
       /\ IdentityNotFound(c) /\ calls[c].logId # NoId
       /\ getVehicleByPlate(calls[c].plateNumber).id # NoId
       /\ LogOf(c).vehicleId = NoId /\ LogOf(c).plateNumber = calls[c].plateNumber

\* the event announces the log entry or the alert written by call c
EventOf(c, event) ==
  \/ /\ event.type \in {"access_log", "access_granted", "access_denied"}
     /\ calls[c].logId # NoId /\ event.id = calls[c].logId
  \/ /\ event.type = "new_alert"
     /\ calls[c].alertId # NoId /\ event.id = calls[c].alertId
\* in what one step sends to a socket, every event of type `first` comes
\* before every event of type `second`
SentInOrder(new, first, second) ==
  \A n \in 1..Len(new), m \in 1..Len(new) :
    new[n].type = first /\ new[m].type = second => n < m

\* C25: a verify call sends new_alert before access_log to every socket, a
\* manual denial sends access_denied before new_alert, and once a verify,
\* grant or deny call has answered, nothing of it is broadcast any more.
C25_BroadcastOrderThenResponse ==
  [][\A c \in 1..Len(calls) : \A k \in DOMAIN inbox :
       /\ (Finishes(c) /\ calls[c].kind = "verify") =>
            SentInOrder(NewEvents(k), "new_alert", "access_log")
       /\ (Finishes(c) /\ calls[c].kind = "deny") =>
            SentInOrder(NewEvents(k), "access_denied", "new_alert")
       /\ calls[c].pc = "done" =>
            \A n \in 1..Len(NewEvents(k)) : ~EventOf(c, NewEvents(k)[n])]_vars

\* a denied verify call has answered and a socket holds its new_alert
\* followed by its access_log
C25_Witness ==
  \E c \in Verifies : \E k \in DOMAIN inbox :
    /\ Returned(c) /\ ~calls[c].isValid
    /\ \E n \in 1..Len(inbox[k]), m \in 1..Len(inbox[k]) :
         /\ n < m
         /\ inbox[k][n].type = "new_alert" /\ inbox[k][n].id = calls[c].alertId
         /\ inbox[k][m].type = "access_log" /\ inbox[k][m].id = calls[c].logId

\* C26: whenever a verify call has the verdict isValid = true, there was an
\* instant between its arrival and its answer at which the store held an
\* active identity with the call's token owning an active vehicle with the
\* call's plate.
C26_GrantsOnlyOnAConsistentView ==
  \A c \in Verifies :
    (calls[c].pc # "vehicle" /\ calls[c].isValid) => hadConsistentView[c]

\* the step is the failure of the vehicle creation of registration a
RegistrationFails(a) ==
  /\ adm[a].kind = "register" /\ adm[a].pc = "vehicle"
  /\ adm' = RemoveAt(adm, a)
\* every vehicle's owner reference is the id of an identity in the store
EveryVehicleHasItsOwner ==
  \A j \in DOMAIN vehicles : vehicles[j].studentId \in DOMAIN students

\* C27: POST /api/students is all-or-nothing: when the vehicle creation
\* fails, the identity created by the call is no longer in the store; and no
\* vehicle ever refers to an owner that is not in the store.
C27_RegistrationIsAllOrNothing ==
  /\ []EveryVehicleHasItsOwner
  /\ [][\A a \in 1..Len(adm) :
          RegistrationFails(a) => adm[a].id \notin DOMAIN students']_vars

\* C28: the camera station has at most one verify request in flight: while
\* isVerifying is true no step sends another POST /api/verify-access.
C28_OneVerifyRequestInFlight ==
  /\ [](Len(station.inFlight) <= 1)
  /\ [][station.isVerifying => Len(station'.inFlight) <= Len(station.inFlight)]_vars

\* the step is an onopen or a manual reconnect()
OpensOrReconnects ==
  \/ \E k \in DOMAIN clientSockets :
       /\ clientSockets[k].readyState = "CONNECTING"
       /\ k \in DOMAIN clientSockets' /\ clientSockets'[k].readyState = "OPEN"
  \/ mounted /\ socketsCreated' # socketsCreated /\ pendingTimeouts' = pendingTimeouts

\* C29: the hook makes at most 5 reconnect attempts in a row without a
\* successful open between them, its counter is 0 after every open and every
\* manual reconnect(), a reconnect timeout is only ever set by the close of
\* a socket, and once the component is unmounted no connection is made.
C29_ReconnectsAreBoundedAndStopAtUnmount ==
  /\ [](automaticAttempts <= 5)
  /\ [][/\ OpensOrReconnects => reconnectAttempts' = 0
        /\ ~(pendingTimeouts' \subseteq pendingTimeouts) =>
             DOMAIN clientSockets' # DOMAIN clientSockets
        /\ ~mounted => socketsCreated' = socketsCreated]_vars

\* C30: a hook instance never has two open sockets and never has two ping
\* intervals set.
C30_OneConnectionAndOnePingTimer ==
  /\ Cardinality({k \in DOMAIN clientSockets : clientSockets[k].readyState = "OPEN"}) <= 1
  /\ Cardinality(pingIntervals) <= 1
====
